---- MODULE Spec2Model ----
(***************************************************************************)
(* Model of the Azure NetApp Files NAS storage driver                      *)
(* (storage_drivers/azure/azure_anf.go): Initialize, the volume lifecycle  *)
(* workflows Create, CreateClone, Import, Resize and Destroy, Publish,     *)
(* CreateFollowup, Get, List and the snapshot operations, running as       *)
(* concurrent calls over one backend.                                      *)
(* Every step of a call is one call to the Backend Client (SDK) followed   *)
(* by the local code up to the next SDK call.  Spec has two callers racing *)
(* on one creation token, VolumeSpec resizes and destroys a volume that    *)
(* exists, CreateSpec has one caller creating volumes with every kind of   *)
(* attribute, CloneSpec clones the source volumes, ImportSpec imports the  *)
(* volumes of three backends, SnapshotSpec works on snapshots,             *)
(* LifecycleSpec has a caller using every operation.                       *)
(***************************************************************************)
EXTENDS Integers, Sequences, FiniteSets, TLC

(* ------------------------------ bounds --------------------------------- *)
\* capacity-pool candidates of the widest storage pool
MaxCandidates == 2
\* lifecycle calls the host issues in one behaviour
MaxCalls == 2

Procs == {"c1", "c2"}

(* ------------------------------ strings -------------------------------- *)
\* A string is its leading characters followed by `pad` letters "a".
Str(chars, pad) == [chars |-> chars, pad |-> pad]
EmptyStr == Str(<<>>, 0)
StrLen(s) == Len(s.chars) + s.pad
CharAt(s, i) == IF i <= Len(s.chars) THEN s.chars[i] ELSE "a"

Letters == {"a", "v", "t", "s", "Z"}
Digits == {"0", "7"}

\* volumeNameRegex  ^[a-zA-Z][a-zA-Z\d-_]{0,63}$
volumeNameRegex(s) ==
    /\ StrLen(s) >= 1
    /\ CharAt(s, 1) \in Letters
    /\ \A i \in 2..Len(s.chars) : s.chars[i] \in Letters \cup Digits \cup {"-", "_"}
    /\ StrLen(s) - 1 <= 63

\* volumeCreationTokenRegex  ^[a-zA-Z][a-zA-Z\d-]{0,79}$
volumeCreationTokenRegex(s) ==
    /\ StrLen(s) >= 1
    /\ CharAt(s, 1) \in Letters
    /\ \A i \in 2..Len(s.chars) : s.chars[i] \in Letters \cup Digits \cup {"-"}
    /\ StrLen(s) - 1 <= 79

validateVolumeName(name) == volumeNameRegex(name)
validateCreationToken(name) == volumeCreationTokenRegex(name)

(* --------------------------- provisioning states ----------------------- *)
StateAccepted == "Accepted"
StateCreating == "Creating"
StateAvailable == "Available"
StateDeleting == "Deleting"
StateDeleted == "Deleted"
StateMoving == "Moving"
StateReverting == "Reverting"
StateError == "Error"
\* state reported by a wait whose last query of the object failed
StateUnknown == ""

(* ------------------------------ sizes ---------------------------------- *)
\* Sizes are counted in units of 12800 bytes, the largest unit dividing both
\* minimums, so that they fit the model checker's integers.
\* MinimumVolumeSizeBytes = 1000000000 bytes
MinimumVolumeSizeBytes == 78125
\* MinimumANFVolumeSizeBytes = 107374182400 bytes
MinimumANFVolumeSizeBytes == 8388608
\* 50 GiB and 200 GiB
Size50GiB == MinimumANFVolumeSizeBytes \div 2
Size200GiB == MinimumANFVolumeSizeBytes * 2

\* A size string either parses to a number of units or does not parse.
SizeStr(n) == [ok |-> TRUE, n |-> n]
BadSizeStr == [ok |-> FALSE, n |-> 0]
\* the empty limit string
NoLimit == [ok |-> FALSE, n |-> 0]

\* A uint64 size argument: n units, plus 2^63 bytes if wrap is set.  The
\* conversion int64(sizeBytes) of a size with wrap set is negative.
UInt64(n) == [n |-> n, wrap |-> FALSE]
UInt64Wrapping == [n |-> 0, wrap |-> TRUE]
\* int64(sizeBytes) == quota and int64(sizeBytes) < quota, for a quota >= 0
Int64Equal(sizeBytes, quota) == ~sizeBytes.wrap /\ sizeBytes.n = quota
Int64Less(sizeBytes, quota) == sizeBytes.wrap \/ sizeBytes.n < quota

(* --------------------------- identifiers ------------------------------- *)
\* api.CreateVolumeID(subscription, resourceGroup, account, capacityPool, name)
CreateVolumeID(cPool, name) == [cp |-> cPool, name |-> name]
NoID == [cp |-> 0, name |-> EmptyStr]

(* --------------------------- driver configuration ---------------------- *)
NFS == "nfs"
SMB == "smb"

\* order in which the SDK lists the capacity pools of a storage pool
Forward == [i \in 1..MaxCandidates |-> i]
Reverse == [i \in 1..MaxCandidates |-> MaxCandidates + 1 - i]

\* service level of every capacity pool in the resource cache
CPoolServiceLevel == "Premium"

\* d.pools (initializeStoragePools) together with what the SDK's resource
\* cache resolves for each pool: whether a subnet exists, and the capacity
\* pools in listed order.
PoolAttrs(kerberos, subnet, cPools) ==
    [Size |-> SizeStr(MinimumANFVolumeSizeBytes),
     ServiceLevel |-> "",
     SnapshotDir |-> "false",
     UnixPermissions |-> "",
     Kerberos |-> kerberos,
     labelsOK |-> TRUE,
     subnet |-> subnet,
     cPools |-> cPools]

PoolNames == {"std", "krb", "nosubnet", "nocpool"}

\* pools with the other kerberos modes, and one with a mode the driver does
\* not support
KerberosPoolNames == {"krb5i", "krb5p", "badkrb"}

pools ==
    [n \in PoolNames \cup KerberosPoolNames |->
        CASE n = "std" -> PoolAttrs("", TRUE, Forward)
          [] n = "krb" -> PoolAttrs("sec=krb5", TRUE, Reverse)
          [] n = "nosubnet" -> PoolAttrs("", FALSE, Forward)
          [] n = "nocpool" -> PoolAttrs("", TRUE, <<>>)
          [] n = "krb5i" -> PoolAttrs("sec=krb5i", TRUE, Forward)
          [] n = "krb5p" -> PoolAttrs("sec=krb5p", TRUE, Forward)
          [] n = "badkrb" -> PoolAttrs("sec=sys", TRUE, Forward)]

\* storagePool argument of Create: a pool of the catalog, nil, or a pool the
\* driver does not know
PoolArgs == PoolNames \cup {"nil", "ghost"}

(* ------------------------------ snapshot names ------------------------ *)
\* A snapshot name is a name the caller chose ("named") or one formatted from
\* the UTC time of its creation ("time"); n tells names of one kind apart.
SnapName(kind, n) == [kind |-> kind, n |-> n]
NoSnapName == SnapName("", 0)

(* ------------------------------ descriptors ---------------------------- *)
\* utils.VolumeAccessInfo, the fields the driver writes; a path is the
\* sequence of its parts
AccessInfoOf(smbPath, smbServer, nfsPath, nfsServerIP) ==
    [SMBPath |-> smbPath, SMBServer |-> smbServer,
     NfsPath |-> nfsPath, NfsServerIP |-> nfsServerIP]
NoAccessInfo == AccessInfoOf(<<>>, "", <<>>, "")

\* storage.VolumeConfig, the fields the driver reads or writes
VolCfg(name, internalName, size, snapshotDir, snap, ro) ==
    [Name |-> name,
     InternalName |-> internalName,
     InternalID |-> NoID,
     Size |-> size,
     ServiceLevel |-> "",
     SnapshotDir |-> snapshotDir,
     UnixPermissions |-> "",
     MountOptions |-> "",
     CloneSourceSnapshotInternal |-> snap,
     CloneSourceVolumeInternal |-> EmptyStr,
     CloneSourceSnapshot |-> NoSnapName,
     ReadOnlyClone |-> ro,
     ImportNotManaged |-> FALSE,
     AccessInfo |-> NoAccessInfo,
     FileSystem |-> ""]

\* names and creation tokens at and beyond the length limits
Name64 == Str(<<"v", "_", "7">>, 61)
Name65 == Str(<<"v", "_", "7">>, 62)
Token80 == Str(<<"t", "-", "7">>, 77)
Token81 == Str(<<"t", "-", "7">>, 78)
TokenUnderscore == Str(<<"t", "_">>, 0)
NameDigitLed == Str(<<"7", "v">>, 0)
CloneName == Str(<<"Z">>, 0)
CloneToken == Str(<<"t", "-", "Z">>, 0)
SourceName == Str(<<"s">>, 0)
SourceToken == Str(<<"t", "-", "s">>, 0)
SourceNameB == Str(<<"s", "7">>, 0)
SourceTokenB == Str(<<"t", "-", "s", "7">>, 0)

NoCfg == VolCfg(EmptyStr, EmptyStr, SizeStr(0), "", NoSnapName, FALSE)

\* descriptors the host hands to Create
GoodConfig == VolCfg(Name64, Token80, SizeStr(Size50GiB), "", NoSnapName, FALSE)
BadConfigs ==
    {VolCfg(Name65, Token80, SizeStr(Size50GiB), "", NoSnapName, FALSE),
     VolCfg(NameDigitLed, Token80, SizeStr(Size50GiB), "", NoSnapName, FALSE),
     VolCfg(Name64, Token81, SizeStr(Size50GiB), "", NoSnapName, FALSE),
     VolCfg(Name64, TokenUnderscore, SizeStr(Size50GiB), "", NoSnapName, FALSE),
     VolCfg(Name64, EmptyStr, SizeStr(Size50GiB), "", NoSnapName, FALSE),
     VolCfg(Name64, Token80, BadSizeStr, "", NoSnapName, FALSE),
     VolCfg(Name64, Token80, SizeStr(1), "", NoSnapName, FALSE),
     VolCfg(Name64, Token80, SizeStr(Size200GiB + 1), "", NoSnapName, FALSE),
     VolCfg(Name64, Token80, SizeStr(0), "maybe", NoSnapName, FALSE)}

\* arguments of Create: the good descriptor on every pool argument, every
\* other descriptor on the standard pool
CreateArgs ==
    {<<GoodConfig, sp>> : sp \in PoolArgs} \cup {<<cfg, "std">> : cfg \in BadConfigs}

\* descriptors of the volumes that exist before the first call
SourceConfigA == VolCfg(SourceName, SourceToken, SizeStr(0), "", NoSnapName, FALSE)
SourceConfigB == VolCfg(SourceNameB, SourceTokenB, SizeStr(0), "", NoSnapName, FALSE)

\* a clone descriptor: the source snapshot it names, read-only or not
CloneConfig(snap, ro) == VolCfg(CloneName, CloneToken, SizeStr(0), "", snap, ro)

\* arguments of CreateClone: source descriptor and clone descriptor
CloneArgs ==
    {<<SourceConfigA, CloneConfig(NoSnapName, FALSE)>>,
     <<SourceConfigA, CloneConfig(SnapName("named", 1), FALSE)>>,
     <<SourceConfigA, VolCfg(Name65, CloneToken, SizeStr(0), "", NoSnapName, FALSE)>>,
     <<SourceConfigA, VolCfg(CloneName, Token81, SizeStr(0), "", NoSnapName, FALSE)>>}

\* The arguments the host passes when calls race on one creation token: the
\* first caller provisions with every kind of argument, the second creates
\* and destroys the volume the first is working on.
RaceHost ==
    [createArgs |-> [p \in Procs |-> IF p = "c1" THEN CreateArgs ELSE {<<GoodConfig, "std">>}],
     cloneArgs |-> [p \in Procs |-> IF p = "c1" THEN CloneArgs ELSE {}],
     destroyConfigs |-> [p \in Procs |-> IF p = "c1" THEN {} ELSE {GoodConfig}],
     nasType |-> NFS,
     kerberos |-> "",
     limitVolumeSize |-> SizeStr(Size200GiB)]

(* ------------------------------ results -------------------------------- *)
\* The error a call returns: its kind, and for a combined error the entries
\* it holds (one per capacity pool, named by the pool).
Ret(kind) == [kind |-> kind, errs |-> <<>>]
NoRet == Ret("none")
Nil == Ret("nil")
\* a combine that keeps only the newest error
multierrCombine_KeepsLast(errs, e) == <<e>>
\* multierr.Combine(errs, err)
multierrCombine(errs, e) == Append(errs, e)
\* a combined error holding no entry is nil
CombinedRet(errs) == IF errs = <<>> THEN Nil ELSE [kind |-> "createErrors", errs |-> errs]

(* ------------------------------ state ---------------------------------- *)
VARIABLES
    host,       \* the arguments the host passes to the calls (never changes)
    vols,       \* backend: the volumes (api.FileSystem) that exist
    snaps,      \* backend: the snapshots that exist
    clock,      \* UTC time, in the resolution of storage.SnapshotNameFormat
    calls,      \* lifecycle calls the host has issued
    pc,         \* per call slot: position of the running call
    volConfig,  \* per call slot: the descriptor the call mutates in place
    frame,      \* per call slot: arguments and local variables of the call
    ret,        \* per call slot: what the last finished call returned
    sdkCalls    \* per call slot: SDK calls issued by the call, in order

vars == <<host, vols, snaps, clock, calls, pc, volConfig, frame, ret, sdkCalls>>

\* d.Config after populateConfigurationDefaults; the NAS type, the kerberos
\* option and the volume size limit are those the backend was configured with
Config ==
    [NASType |-> host.nasType,
     Kerberos |-> host.kerberos,
     NfsMountOptions |-> "nfsvers=3",
     LimitVolumeSize |-> host.limitVolumeSize,
     UnixPermissions |-> "",
     HasUnixPermissions |-> FALSE]

(* --------------------------- create request ---------------------------- *)
\* api.ExportRule
ExportRule(nfsv3, nfsv41, unixRW, krb5, krb5i, krb5p) ==
    [Nfsv3 |-> nfsv3, Nfsv41 |-> nfsv41, Cifs |-> FALSE, RuleIndex |-> 1,
     UnixReadOnly |-> FALSE, UnixReadWrite |-> unixRW,
     Kerberos5ReadWrite |-> krb5, Kerberos5IReadWrite |-> krb5i,
     Kerberos5PReadWrite |-> krb5p]
\* the zero value of api.ExportRule
NoExportRule ==
    [Nfsv3 |-> FALSE, Nfsv41 |-> FALSE, Cifs |-> FALSE, RuleIndex |-> 0,
     UnixReadOnly |-> FALSE, UnixReadWrite |-> FALSE,
     Kerberos5ReadWrite |-> FALSE, Kerberos5IReadWrite |-> FALSE,
     Kerberos5PReadWrite |-> FALSE]

\* api.FilesystemCreateRequest
NoRequest ==
    [CapacityPool |-> 0, Name |-> EmptyStr, CreationToken |-> EmptyStr,
     ProtocolTypes |-> <<>>, QuotaInBytes |-> 0, SnapshotDirectory |-> FALSE,
     KerberosEnabled |-> FALSE, UnixPermissions |-> "",
     ExportRule |-> NoExportRule, SnapshotID |-> NoSnapName]

(* --------------------------- attribute resolution ---------------------- *)
\* strconv.ParseBool
ParseBoolOK(s) == s \in {"1", "t", "T", "TRUE", "true", "True", "0", "f", "F", "FALSE", "false", "False"}
ParseBool(s) == s \in {"1", "t", "T", "TRUE", "true", "True"}

\* utils.Title on the service levels
Title(s) ==
    CASE s = "standard" -> "Standard"
      [] s = "premium" -> "Premium"
      [] s = "ultra" -> "Ultra"
      [] OTHER -> s

\* utils.GetNFSVersionFromMountOptions(mountOptions, nfsVersion3, supportedNFSVersions):
\* the version the options name, the default when they name none
NFSVersion(mountOptions) ==
    CASE mountOptions = "nfsvers=3" -> "3"
      [] mountOptions = "nfsvers=4" -> "4"
      [] mountOptions = "nfsvers=4.1" -> "4.1"
      [] mountOptions = "nfsvers=2" -> "2"
      [] OTHER -> "3"
supportedNFSVersions == {"3", "4", "4.1"}

KerberosModes == {"sec=krb5", "sec=krb5i", "sec=krb5p"}

\* a size determination that rejects sizes below the protocol floor
CreateSize_RejectsBelowFloor(cfg, pool) ==
    IF ~cfg.Size.ok THEN [err |-> "invalidSize", n |-> 0]
    ELSE LET requested == IF cfg.Size.n = 0
                          THEN (IF pool.Size.ok THEN pool.Size.n ELSE 0)
                          ELSE cfg.Size.n
         IN  IF requested < MinimumANFVolumeSizeBytes
             THEN [err |-> "sizeTooSmall", n |-> requested]
             ELSE IF Config.LimitVolumeSize.ok /\ requested > Config.LimitVolumeSize.n
                  THEN [err |-> "sizeLimitExceeded", n |-> requested]
                  ELSE [err |-> "", n |-> requested]
\* a size determination that checks the limit before raising the size
CreateSize_LimitBeforeRaise(cfg, pool) ==
    IF ~cfg.Size.ok THEN [err |-> "invalidSize", n |-> 0]
    ELSE LET requested == IF cfg.Size.n = 0
                          THEN (IF pool.Size.ok THEN pool.Size.n ELSE 0)
                          ELSE cfg.Size.n
             raised == IF requested < MinimumANFVolumeSizeBytes
                       THEN MinimumANFVolumeSizeBytes ELSE requested
         IN  IF requested < MinimumVolumeSizeBytes
             THEN [err |-> "sizeTooSmall", n |-> requested]
             ELSE IF Config.LimitVolumeSize.ok /\ requested > Config.LimitVolumeSize.n
                  THEN [err |-> "sizeLimitExceeded", n |-> requested]
                  ELSE [err |-> "", n |-> raised]
\* Create, size determination: the volume size in units, or the error
CreateSize(cfg, pool) ==
    IF ~cfg.Size.ok THEN [err |-> "invalidSize", n |-> 0]
    ELSE LET requested == IF cfg.Size.n = 0
                          THEN (IF pool.Size.ok THEN pool.Size.n ELSE 0)
                          ELSE cfg.Size.n
             raised == IF requested < MinimumANFVolumeSizeBytes
                       THEN MinimumANFVolumeSizeBytes ELSE requested
         IN  IF requested < MinimumVolumeSizeBytes
             THEN [err |-> "sizeTooSmall", n |-> requested]
             ELSE IF Config.LimitVolumeSize.ok /\ raised > Config.LimitVolumeSize.n
                  THEN [err |-> "sizeLimitExceeded", n |-> raised]
                  ELSE [err |-> "", n |-> raised]

\* an export rule that keeps the NFS version of the mount options and the
\* unix read-write flag on a kerberos pool
CreateExportRule_KerberosAddsFlagOnly(nfsVersion, kerberos) ==
    ExportRule(nfsVersion = "3", nfsVersion \in {"4", "4.1"}, TRUE,
               kerberos = "sec=krb5", kerberos = "sec=krb5i", kerberos = "sec=krb5p")
\* Create, export rule of an NFS volume
CreateExportRule(nfsVersion, kerberos) ==
    IF kerberos \in KerberosModes
    THEN ExportRule(FALSE, TRUE, FALSE,
                    kerberos = "sec=krb5", kerberos = "sec=krb5i", kerberos = "sec=krb5p")
    ELSE ExportRule(nfsVersion = "3", nfsVersion \in {"4", "4.1"}, TRUE, FALSE, FALSE, FALSE)

\* Create, protocol types
CreateProtocolTypes(nfsVersion, kerberos) ==
    IF Config.NASType = SMB THEN <<"CIFS">>
    ELSE IF kerberos \in KerberosModes THEN <<"NFSv4.1">>
    ELSE IF nfsVersion = "3" THEN <<"NFSv3">> ELSE <<"NFSv4.1">>

\* Create from the size determination up to the update of the descriptor:
\* the error, or the resolved attributes
CreateResolve(cfg, pool) ==
    LET size == CreateSize(cfg, pool)
        serviceLevel == IF Title(cfg.ServiceLevel) = "" THEN pool.ServiceLevel
                        ELSE Title(cfg.ServiceLevel)
        snapshotDir == IF cfg.SnapshotDir = "" THEN pool.SnapshotDir ELSE cfg.SnapshotDir
        perms0 == IF cfg.UnixPermissions = "" THEN pool.UnixPermissions
                  ELSE cfg.UnixPermissions
        unixPermissions == IF perms0 = "" /\ Config.HasUnixPermissions THEN "0777" ELSE perms0
        mountOptions == IF cfg.MountOptions # "" THEN cfg.MountOptions
                        ELSE Config.NfsMountOptions
        kerberos == pool.Kerberos
        nfsVersion == NFSVersion(mountOptions)
        err == CASE size.err # "" -> size.err
                 [] ~ParseBoolOK(snapshotDir) -> "invalidSnapshotDir"
                 [] kerberos \notin KerberosModes \cup {""} -> "unsupportedKerberos"
                 [] Config.NASType # SMB /\ nfsVersion \notin supportedNFSVersions -> "unsupportedNFSVersion"
                 [] ~pool.labelsOK -> "labelsError"
                 [] OTHER -> ""
    IN  [err |-> err,
         sizeBytes |-> size.n,
         serviceLevel |-> serviceLevel,
         snapshotDir |-> snapshotDir,
         unixPermissions |-> unixPermissions,
         hasFeatureAsked |-> (size.err = "" /\ ParseBoolOK(snapshotDir) /\ perms0 = ""),
         request |->
            [CapacityPool |-> 0, Name |-> cfg.Name, CreationToken |-> cfg.InternalName,
             ProtocolTypes |-> CreateProtocolTypes(nfsVersion, kerberos),
             QuotaInBytes |-> size.n,
             SnapshotDirectory |-> ParseBool(snapshotDir),
             KerberosEnabled |-> kerberos \in KerberosModes,
             UnixPermissions |-> IF Config.NASType = NFS THEN unixPermissions ELSE "",
             ExportRule |-> IF Config.NASType = NFS
                            THEN CreateExportRule(nfsVersion, kerberos) ELSE NoExportRule,
             SnapshotID |-> NoSnapName]]

(* ------------------------------ backend -------------------------------- *)
\* api.FileSystem as the backend holds it
FileSystem(id, req, state) ==
    [id |-> id, token |-> req.CreationToken, state |-> state,
     CapacityPool |-> req.CapacityPool,
     ProtocolTypes |-> req.ProtocolTypes, QuotaInBytes |-> req.QuotaInBytes,
     SnapshotDirectory |-> req.SnapshotDirectory,
     KerberosEnabled |-> req.KerberosEnabled,
     UnixPermissions |-> req.UnixPermissions, ExportRule |-> req.ExportRule,
     SnapshotID |-> req.SnapshotID]

VolumesByID(id) == {v \in vols : v.id = id}
VolumesByCreationToken(token) == {v \in vols : v.token = token}

\* SDK.VolumeExists / SDK.Volume: the identifier is the lookup key once it is
\* set, the creation token otherwise
VolumeLookup(cfg) ==
    IF cfg.InternalID # NoID THEN VolumesByID(cfg.InternalID)
    ELSE VolumesByCreationToken(cfg.InternalName)

\* SDK.CreateVolume: the backend accepts a request only if neither the
\* identifier nor the creation token is taken
BackendAccepts(req) ==
    /\ VolumesByID(CreateVolumeID(req.CapacityPool, req.Name)) = {}
    /\ VolumesByCreationToken(req.CreationToken) = {}

\* SDK.CreateVolume: the volumes the call may return; none when it fails,
\* which any call may
CreateVolumeResults(req) ==
    IF BackendAccepts(req)
    THEN {FileSystem(CreateVolumeID(req.CapacityPool, req.Name), req, st) :
            st \in {StateAccepted, StateCreating}}
    ELSE {}

\* SDK.WaitForVolumeState(volume, desired, abort states, timeout): the final
\* observed state and whether an error is returned.  The wait succeeds once
\* the desired state is seen, aborts on an abort state, and otherwise may time
\* out in whatever state it saw last ("" if the last query failed).  A volume
\* that is gone counts as Deleted.
WaitForVolumeState(id, desired, abortStates) ==
    LET found == VolumesByID(id)
        now == IF found = {} THEN {StateDeleted} ELSE {v.state : v \in found}
    IN  {[state |-> st, err |-> st # desired] : st \in now}
        \cup {[state |-> StateUnknown, err |-> TRUE] : st \in now \ ({desired} \cup abortStates)}

\* SDK.DeleteVolume on the backend: the volume starts deleting
DeleteVolume(id) ==
    {IF v.id = id THEN [v EXCEPT !.state = StateDeleting] ELSE v : v \in vols}

\* api.Snapshot as the backend holds it
Snapshot(volumeID, name, state) == [vol |-> volumeID, name |-> name, state |-> state]
NoVolume == FileSystem(NoID, NoRequest, "")

\* SDK.SnapshotForVolume(volume, name)
SnapshotsForVolume(volumeID, name) == {sn \in snaps : sn.vol = volumeID /\ sn.name = name}

\* SDK.WaitForSnapshotState(snapshot, volume, desired, abort states, timeout):
\* whether an error is returned; a wait that has not seen the desired state
\* aborts or times out
WaitForSnapshotState(volumeID, name, desired) ==
    LET found == SnapshotsForVolume(volumeID, name)
    IN  IF found = {} THEN {desired # StateDeleted}
        ELSE {sn.state # desired : sn \in found}

\* volumes and snapshots that exist before the first call: a source volume
\* with snapshot-directory access, one without it that has kerberos enabled,
\* and on the first an Available and a failed snapshot
SourceRequest(name, token, snapshotDir, kerberos) ==
    [NoRequest EXCEPT !.CapacityPool = 1, !.Name = name, !.CreationToken = token,
                      !.ProtocolTypes = <<"NFSv4.1">>,
                      !.QuotaInBytes = MinimumANFVolumeSizeBytes,
                      !.SnapshotDirectory = snapshotDir, !.KerberosEnabled = kerberos,
                      !.ExportRule = CreateExportRule("4.1", IF kerberos THEN "sec=krb5" ELSE "")]
SourceA == FileSystem(CreateVolumeID(1, SourceName),
                      SourceRequest(SourceName, SourceToken, TRUE, FALSE), StateAvailable)
SourceB == FileSystem(CreateVolumeID(1, SourceNameB),
                      SourceRequest(SourceNameB, SourceTokenB, FALSE, TRUE), StateAvailable)
SnapAvailable == SnapName("named", 1)
SnapFailed == SnapName("named", 2)
SnapMissing == SnapName("named", 3)

(* ------------------------------ calls ---------------------------------- *)
\* utils.VolumePublishInfo, the fields Publish writes
NoPublishInfo ==
    [access |-> NoAccessInfo, FilesystemType |-> "", MountOptions |-> ""]

NoFrame ==
    [op |-> "", storagePool |-> "", retry |-> FALSE, prevRet |-> "none",
     prevState |-> "none", entry |-> NoCfg, extant |-> "none", request |-> NoRequest,
     cPools |-> <<>>, idx |-> 0, createErrors |-> <<>>,
     volume |-> NoID, state |-> "none", waitErr |-> FALSE,
     sourceCfg |-> NoCfg, sourceVolume |-> NoVolume, cloneID |-> NoID,
     snapName |-> NoSnapName, sourceSnapshot |-> NoSnapName,
     sizeBytes |-> UInt64(0), found |-> NoVolume, acp |-> "unasked",
     originalName |-> EmptyStr, result |-> "none", snapshots |-> {},
     publishInfo |-> NoPublishInfo, volumeNames |-> {}]

Idle(p) == pc[p] \in {"idle", "done"}

\* an SDK call as the log records it: the method, the capacity pool of a
\* create request, and for a wait the timeout it is given
Call(name) == [call |-> name, cPool |-> 0, arg |-> ""]
CallWith(name, cPool, arg) == [call |-> name, cPool |-> cPool, arg |-> arg]
\* the call in slot p issues the SDK calls `entries`, in order
Log(p, entries) == [sdkCalls EXCEPT ![p] = @ \o entries]

\* the call in slot p returns r
Return(p, r) ==
    /\ pc' = [pc EXCEPT ![p] = "done"]
    /\ ret' = [ret EXCEPT ![p] = r]

Goto(p, label) ==
    /\ pc' = [pc EXCEPT ![p] = label]
    /\ UNCHANGED ret

Init ==
    /\ host = RaceHost
    /\ vols = {SourceA, SourceB}
    /\ snaps = {Snapshot(SourceA.id, SnapAvailable, StateAvailable),
                Snapshot(SourceA.id, SnapFailed, StateError)}
    /\ clock = 1
    /\ calls = 0
    /\ pc = [p \in Procs |-> "idle"]
    /\ volConfig = [p \in Procs |-> NoCfg]
    /\ frame = [p \in Procs |-> NoFrame]
    /\ ret = [p \in Procs |-> NoRet]
    /\ sdkCalls = [p \in Procs |-> <<>>]

(* ------------------------------ Create --------------------------------- *)
\* the host calls Create with a fresh descriptor
CreateCall(p) ==
    /\ Idle(p)
    /\ calls < MaxCalls
    /\ \E args \in host.createArgs[p] :
        /\ volConfig' = [volConfig EXCEPT ![p] = args[1]]
        /\ frame' = [frame EXCEPT ![p] =
                        [NoFrame EXCEPT !.op = "Create", !.storagePool = args[2],
                                        !.entry = args[1]]]
    /\ calls' = calls + 1
    /\ pc' = [pc EXCEPT ![p] = "Create.refresh"]
    /\ ret' = [ret EXCEPT ![p] = NoRet]
    /\ sdkCalls' = [sdkCalls EXCEPT ![p] = <<>>]
    /\ UNCHANGED <<host, vols, snaps, clock>>

\* the host retries a Create that returned an error, with the descriptor as
\* the failed call left it
CreateRetry(p) ==
    /\ pc[p] = "done"
    /\ calls < MaxCalls
    /\ frame[p].op = "Create"
    /\ ret[p].kind # "nil"
    /\ frame' = [frame EXCEPT ![p] =
                    [NoFrame EXCEPT !.op = "Create", !.storagePool = frame[p].storagePool,
                                    !.retry = TRUE, !.prevRet = ret[p].kind,
                                    !.prevState = IF frame[p].waitErr
                                                  THEN frame[p].state ELSE "none",
                                    !.entry = volConfig[p]]]
    /\ calls' = calls + 1
    /\ pc' = [pc EXCEPT ![p] = "Create.refresh"]
    /\ ret' = [ret EXCEPT ![p] = NoRet]
    /\ sdkCalls' = [sdkCalls EXCEPT ![p] = <<>>]
    /\ UNCHANGED <<host, vols, snaps, clock, volConfig>>

\* the checks without the creation-token check
CreateValidate_NoTokenCheck(cfg, storagePool, acpEnabled) ==
    CASE ~volumeNameRegex(cfg.Name) -> "invalidName"
      [] storagePool = "nil" -> "poolNotSpecified"
      [] storagePool \notin DOMAIN pools -> "poolNotFound"
      [] pools[storagePool].Kerberos # "" /\ ~acpEnabled -> "requiresACP"
      [] OTHER -> ""
\* Create, the checks between the cache refresh and the existence check:
\* the error they return, "" if they pass
CreateValidate(cfg, storagePool, acpEnabled) ==
    CASE ~validateVolumeName(cfg.Name) -> "invalidName"
      [] ~validateCreationToken(cfg.InternalName) -> "invalidToken"
      [] storagePool = "nil" -> "poolNotSpecified"
      [] storagePool \notin DOMAIN pools -> "poolNotFound"
      [] pools[storagePool].Kerberos # "" /\ ~acpEnabled -> "requiresACP"
      [] OTHER -> ""

\* Create: whether the call gets as far as asking ACP for the entitlement
ACPConsulted(cfg, storagePool) ==
    /\ validateVolumeName(cfg.Name)
    /\ validateCreationToken(cfg.InternalName)
    /\ storagePool \in DOMAIN pools
    /\ pools[storagePool].Kerberos # ""

\* what acp.API().IsFeatureEnabled answered, as the frame records it
ACPAnswer(acpEnabled) == IF acpEnabled THEN "enabled" ELSE "missing"

\* Create: RefreshAzureResources, then name, token, pool and ACP checks
CreateRefresh(p) ==
    /\ pc[p] = "Create.refresh"
    /\ sdkCalls' = Log(p, <<Call("RefreshAzureResources")>>)
    /\ \E refreshed \in BOOLEAN, acpEnabled \in BOOLEAN :
        LET err == CreateValidate(volConfig[p], frame[p].storagePool, acpEnabled)
        IN  IF ~refreshed
            THEN /\ Return(p, Ret("refreshError"))
                 /\ UNCHANGED frame
            ELSE /\ frame' = [frame EXCEPT ![p].acp =
                                IF ACPConsulted(volConfig[p], frame[p].storagePool)
                                THEN ACPAnswer(acpEnabled) ELSE "unasked"]
                 /\ IF err # "" THEN Return(p, Ret(err))
                    ELSE Goto(p, "Create.exists")
    /\ UNCHANGED <<host, vols, snaps, clock, calls, volConfig>>

\* an existence check that takes every duplicate for a stable one
ExistsError_NeverCreating(state) == "VolumeExistsError"
\* an existence check that takes every duplicate for one still creating
ExistsError_AlwaysCreating(state) == "VolumeCreatingError"
\* Create: what the call returns when the volume already exists in `state`
ExistsError(state) ==
    IF state = StateCreating THEN "VolumeCreatingError" ELSE "VolumeExistsError"

\* an existence check that never bails out
VolumeExists_Ignored(found) == FALSE
\* Create/CreateClone: whether the existence check makes the call bail out
VolumeExists(found) == found # {}

\* Create: VolumeExists, then the attribute resolution and the update of the
\* descriptor
CreateVolumeExists(p) ==
    /\ pc[p] = "Create.exists"
    /\ \E failed \in BOOLEAN :
        LET found == VolumeLookup(volConfig[p])
            r == CreateResolve(volConfig[p], pools[frame[p].storagePool])
            seen == IF found = {} THEN {"absent"} ELSE {v.state : v \in found}
        IN  IF failed
            THEN /\ Return(p, Ret("existsCheckError"))
                 /\ sdkCalls' = Log(p, <<Call("VolumeExists")>>)
                 /\ UNCHANGED <<volConfig, frame>>
            ELSE \E state \in seen :
                 IF VolumeExists(found)
                 THEN /\ frame' = [frame EXCEPT ![p].extant = state]
                      /\ Return(p, Ret(ExistsError(state)))
                      /\ sdkCalls' = Log(p, <<Call("VolumeExists")>>)
                      /\ UNCHANGED volConfig
                 ELSE /\ sdkCalls' = IF r.hasFeatureAsked
                                     THEN Log(p, <<Call("VolumeExists"), Call("HasFeature")>>)
                                     ELSE Log(p, <<Call("VolumeExists")>>)
                      /\ IF r.err # ""
                         THEN /\ Return(p, Ret(r.err))
                              /\ frame' = [frame EXCEPT ![p].extant = state]
                              /\ UNCHANGED volConfig
                         ELSE /\ volConfig' = [volConfig EXCEPT ![p] =
                                     [@ EXCEPT !.Size = SizeStr(r.sizeBytes),
                                               !.ServiceLevel = r.serviceLevel,
                                               !.SnapshotDir = r.snapshotDir,
                                               !.UnixPermissions = r.unixPermissions]]
                              /\ frame' = [frame EXCEPT ![p].request = r.request,
                                                        ![p].extant = state]
                              /\ Goto(p, "Create.place")
    /\ UNCHANGED <<host, vols, snaps, clock, calls>>

\* SDK.CapacityPoolsForStoragePool(pool, serviceLevel)
CapacityPoolsForStoragePool(pool, serviceLevel) ==
    IF serviceLevel = "" \/ serviceLevel = CPoolServiceLevel THEN pool.cPools ELSE <<>>

\* a placement that goes on without a subnet
PlacementError_NoSubnetCheck(subnet, cPools) ==
    IF Len(cPools) = 0 THEN "noCapacityPools" ELSE ""
\* Create: the error of a placement that found no subnet or no capacity pool,
\* "" if it found both
PlacementError(subnet, cPools) ==
    CASE ~subnet -> "noSubnet"
      [] Len(cPools) = 0 -> "noCapacityPools"
      [] OTHER -> ""

\* Create: subnet and capacity pools of the storage pool
CreatePlace(p) ==
    /\ pc[p] = "Create.place"
    /\ LET pool == pools[frame[p].storagePool]
           cPools == CapacityPoolsForStoragePool(pool, volConfig[p].ServiceLevel)
           err == PlacementError(pool.subnet, cPools)
       IN  /\ sdkCalls' = IF err = "noSubnet"
                          THEN Log(p, <<Call("RandomSubnetForStoragePool")>>)
                          ELSE Log(p, <<Call("RandomSubnetForStoragePool"),
                                        Call("CapacityPoolsForStoragePool")>>)
           /\ IF err # ""
              THEN /\ Return(p, Ret(err))
                   /\ UNCHANGED frame
              ELSE /\ frame' = [frame EXCEPT ![p].cPools = cPools, ![p].idx = 1]
                   /\ Goto(p, "Create.create")
    /\ UNCHANGED <<host, vols, snaps, clock, calls, volConfig>>

\* a loop that walks the capacity pools from the last to the first
CapacityPoolAt_Backwards(cPools, idx) == cPools[Len(cPools) + 1 - idx]
\* Create: the capacity pool the loop is at
CapacityPoolAt(cPools, idx) == cPools[idx]

\* the identifier is not saved
SaveInternalID_Skipped(cfg, id) == cfg
\* an identifier made up from the name is saved, not the one returned
SaveInternalID_NameOnly(cfg, id) == [cfg EXCEPT !.InternalID = CreateVolumeID(0, id.name)]
\* Create/CreateClone: the identifier is saved on the descriptor
SaveInternalID(cfg, id) == [cfg EXCEPT !.InternalID = id]

\* Create: one iteration of the loop over the capacity pools, CreateVolume in
\* the pool the loop is at
CreateTryCapacityPool(p) ==
    /\ pc[p] = "Create.create"
    /\ LET cPool == CapacityPoolAt(frame[p].cPools, frame[p].idx)
           req == [frame[p].request EXCEPT !.CapacityPool = cPool]
           errs == multierrCombine(frame[p].createErrors, cPool)
       IN  /\ sdkCalls' = Log(p, <<CallWith("CreateVolume", cPool, "")>>)
           /\ \/ \* the create fails: record the error, go on with the next pool
                 /\ frame' = [frame EXCEPT ![p].createErrors = errs,
                                           ![p].idx = frame[p].idx + 1]
                 /\ IF frame[p].idx = Len(frame[p].cPools)
                    THEN Return(p, CombinedRet(errs))
                    ELSE Goto(p, "Create.create")
                 /\ UNCHANGED <<vols, volConfig>>
              \/ \* the create is accepted: save the ID, wait for the volume
                 \E volume \in CreateVolumeResults(req) :
                    /\ vols' = vols \cup {volume}
                    /\ volConfig' = [volConfig EXCEPT ![p] = SaveInternalID(@, volume.id)]
                    /\ frame' = [frame EXCEPT ![p].volume = volume.id]
                    /\ Goto(p, "wait")
    /\ UNCHANGED <<host, snaps, clock, calls>>

(* --------------------------- waitForVolumeCreate ----------------------- *)
\* a switch that lacks the Accepted state
WaitCreateCase_NoAccepted(state, err) ==
    CASE ~err -> "ok"
      [] state = StateCreating -> "creating"
      [] state = StateDeleting -> "deleting"
      [] state = StateError -> "error"
      [] OTHER -> "unexpected"
\* a switch that lacks the Error case
WaitCreateCase_NoError(state, err) ==
    CASE ~err -> "ok"
      [] state \in {StateAccepted, StateCreating} -> "creating"
      [] state = StateDeleting -> "deleting"
      [] OTHER -> "unexpected"
\* a switch that cleans up a volume that is still being created
WaitCreateCase_TimeoutCleansUp(state, err) ==
    CASE ~err -> "ok"
      [] state \in {StateAccepted, StateCreating, StateError} -> "error"
      [] state = StateDeleting -> "deleting"
      [] OTHER -> "unexpected"
\* a switch that cleans up a volume in a state it does not expect
WaitCreateCase_UnexpectedCleansUp(state, err) ==
    CASE ~err -> "ok"
      [] state \in {StateAccepted, StateCreating} -> "creating"
      [] state = StateDeleting -> "deleting"
      [] OTHER -> "error"
\* waitForVolumeCreate: the case of the switch on the state the wait ended in
WaitCreateCase(state, err) ==
    CASE ~err -> "ok"
      [] state \in {StateAccepted, StateCreating} -> "creating"
      [] state = StateDeleting -> "deleting"
      [] state = StateError -> "error"
      [] OTHER -> "unexpected"

\* waitForVolumeCreate: what it returns in each case
WaitCreateReturn(case) ==
    IF case = "creating" THEN Ret("VolumeCreatingError") ELSE Nil

\* waitForVolumeCreate: wait for Available, then switch on the final state
WaitForVolumeCreate(p) ==
    /\ pc[p] = "wait"
    /\ sdkCalls' = Log(p, <<CallWith("WaitForVolumeState", 0, "volumeCreateTimeout")>>)
    /\ \E o \in WaitForVolumeState(frame[p].volume, StateAvailable, {StateError}) :
        LET case == WaitCreateCase(o.state, o.err)
        IN  /\ frame' = [frame EXCEPT ![p].state = o.state, ![p].waitErr = o.err]
            /\ CASE case = "deleting" -> Goto(p, "wait.deleting")
                 [] case = "error" -> Goto(p, "wait.cleanup")
                 [] OTHER -> Return(p, WaitCreateReturn(case))
    /\ UNCHANGED <<host, vols, snaps, clock, calls, volConfig>>

\* waitForVolumeCreate, case Deleting: wait for the deletion to complete
WaitCreateDeleting(p) ==
    /\ pc[p] = "wait.deleting"
    /\ sdkCalls' = Log(p, <<CallWith("WaitForVolumeState", 0, "defaultTimeout")>>)
    /\ Return(p, WaitCreateReturn("deleting"))
    /\ UNCHANGED <<host, vols, snaps, clock, calls, volConfig, frame>>

\* waitForVolumeCreate, case Error: delete the failed volume
WaitCreateCleanup(p) ==
    /\ pc[p] = "wait.cleanup"
    /\ sdkCalls' = Log(p, <<Call("DeleteVolume")>>)
    /\ \E deleted \in BOOLEAN :
        vols' = IF deleted THEN DeleteVolume(frame[p].volume) ELSE vols
    /\ Return(p, WaitCreateReturn("error"))
    /\ UNCHANGED <<host, snaps, clock, calls, volConfig, frame>>

(* ------------------------------ CreateClone ---------------------------- *)
\* the host calls CreateClone
CloneCall(p) ==
    /\ Idle(p)
    /\ calls < MaxCalls
    /\ \E args \in host.cloneArgs[p] :
        /\ volConfig' = [volConfig EXCEPT ![p] = args[2]]
        /\ frame' = [frame EXCEPT ![p] =
                        [NoFrame EXCEPT !.op = "CreateClone", !.sourceCfg = args[1],
                                        !.entry = args[2]]]
    /\ calls' = calls + 1
    /\ pc' = [pc EXCEPT ![p] = "Clone.refresh"]
    /\ ret' = [ret EXCEPT ![p] = NoRet]
    /\ sdkCalls' = [sdkCalls EXCEPT ![p] = <<>>]
    /\ UNCHANGED <<host, vols, snaps, clock>>

\* CreateClone, name and token checks: the error, "" if they pass
CloneValidate(cfg) ==
    CASE ~validateVolumeName(cfg.Name) -> "invalidName"
      [] ~validateCreationToken(cfg.InternalName) -> "invalidToken"
      [] OTHER -> ""

\* CreateClone: RefreshAzureResources, then name and token checks
CloneRefresh(p) ==
    /\ pc[p] = "Clone.refresh"
    /\ sdkCalls' = Log(p, <<Call("RefreshAzureResources")>>)
    /\ \E refreshed \in BOOLEAN :
        LET err == CloneValidate(volConfig[p])
        IN  IF ~refreshed THEN Return(p, Ret("refreshError"))
            ELSE IF err # "" THEN Return(p, Ret(err))
            ELSE Goto(p, "Clone.source")
    /\ UNCHANGED <<host, vols, snaps, clock, calls, volConfig, frame>>

\* an identifier computed from the clone's creation token
CloneID_FromCreationToken(sourceVolume, cfg) ==
    CreateVolumeID(sourceVolume.CapacityPool, cfg.InternalName)
\* CreateClone: the clone's identifier, from the capacity pool of the source
\* volume and the name of the clone
CloneID(sourceVolume, cfg) == CreateVolumeID(sourceVolume.CapacityPool, cfg.Name)

\* CreateClone: get the source volume, check ACP if it has kerberos enabled,
\* compute the clone's identifier
CloneSource(p) ==
    /\ pc[p] = "Clone.source"
    /\ sdkCalls' = Log(p, <<Call("Volume")>>)
    /\ \E failed \in BOOLEAN, acpEnabled \in BOOLEAN :
        LET found == VolumeLookup(frame[p].sourceCfg)
        IN  IF failed \/ found = {}
            THEN /\ Return(p, Ret("sourceNotFound"))
                 /\ UNCHANGED frame
            ELSE \E v \in found :
                    IF v.KerberosEnabled /\ ~acpEnabled
                    THEN /\ Return(p, Ret("requiresACP"))
                         /\ UNCHANGED frame
                    ELSE /\ frame' = [frame EXCEPT
                                ![p].sourceVolume = v,
                                ![p].cloneID = CloneID(v, volConfig[p])]
                         /\ Goto(p, "Clone.exists")
    /\ UNCHANGED <<host, vols, snaps, clock, calls, volConfig>>

\* CreateClone: VolumeExistsByID on the clone's identifier
CloneVolumeExists(p) ==
    /\ pc[p] = "Clone.exists"
    /\ sdkCalls' = Log(p, <<Call("VolumeExistsByID")>>)
    /\ \E failed \in BOOLEAN :
        LET found == VolumesByID(frame[p].cloneID)
            seen == IF found = {} THEN {"absent"} ELSE {v.state : v \in found}
        IN  IF failed
            THEN /\ Return(p, Ret("existsCheckError"))
                 /\ UNCHANGED frame
            ELSE \E state \in seen :
                 /\ frame' = [frame EXCEPT ![p].extant = state]
                 /\ IF VolumeExists(found)
                    THEN Return(p, Ret(ExistsError(state)))
                    ELSE IF volConfig[p].CloneSourceSnapshotInternal # NoSnapName
                    THEN Goto(p, "Clone.snapshot")
                    ELSE Goto(p, "Clone.createSnapshot")
    /\ UNCHANGED <<host, vols, snaps, clock, calls, volConfig>>

\* CreateClone once the source snapshot is known: a read-only clone returns
\* without a backend object, any other clone goes on to create the volume
CloneAfterSnapshot(p) ==
    IF volConfig[p].ReadOnlyClone
    THEN IF ~frame[p].sourceVolume.SnapshotDirectory
         THEN Return(p, Ret("snapshotDirDisabled"))
         ELSE Return(p, Nil)
    ELSE Goto(p, "Clone.create")

\* a check that accepts a snapshot in any state
SnapshotUsable_AnyState(sn) == TRUE
\* CreateClone: the named snapshot may be cloned from only if it is Available
SnapshotUsable(sn) == sn.state = StateAvailable

\* CreateClone with a named snapshot: it must exist and be Available
CloneGetSnapshot(p) ==
    /\ pc[p] = "Clone.snapshot"
    /\ sdkCalls' = Log(p, <<Call("SnapshotForVolume")>>)
    /\ \E failed \in BOOLEAN :
        LET found == SnapshotsForVolume(frame[p].sourceVolume.id,
                                        volConfig[p].CloneSourceSnapshotInternal)
        IN  IF failed \/ found = {}
            THEN /\ Return(p, Ret("snapshotNotFound"))
                 /\ UNCHANGED frame
            ELSE \E sn \in found :
                    IF ~SnapshotUsable(sn)
                    THEN /\ Return(p, Ret("snapshotNotAvailable"))
                         /\ UNCHANGED frame
                    ELSE /\ frame' = [frame EXCEPT ![p].sourceSnapshot = sn.name]
                         /\ CloneAfterSnapshot(p)
    /\ UNCHANGED <<host, vols, snaps, clock, calls, volConfig>>

\* CreateClone without a named snapshot: create one named from the time
CloneCreateSnapshot(p) ==
    /\ pc[p] = "Clone.createSnapshot"
    /\ sdkCalls' = Log(p, <<Call("CreateSnapshot")>>)
    /\ LET snapName == SnapName("time", clock)
       IN  \E created \in BOOLEAN :
            IF created /\ SnapshotsForVolume(frame[p].sourceVolume.id, snapName) = {}
            THEN /\ snaps' = snaps \cup {Snapshot(frame[p].sourceVolume.id, snapName, StateCreating)}
                 /\ frame' = [frame EXCEPT ![p].snapName = snapName]
                 /\ Goto(p, "Clone.waitSnapshot")
            ELSE /\ Return(p, Ret("createSnapshotError"))
                 /\ UNCHANGED <<snaps, frame>>
    \* time moves on between two snapshot creations
    /\ clock' = clock + 1
    /\ UNCHANGED <<host, vols, calls, volConfig>>

\* CreateClone: wait for the new snapshot to be Available
CloneWaitSnapshot(p) ==
    /\ pc[p] = "Clone.waitSnapshot"
    /\ sdkCalls' = Log(p, <<CallWith("WaitForSnapshotState", 0, "SnapshotTimeout")>>)
    /\ \E err \in WaitForSnapshotState(frame[p].sourceVolume.id, frame[p].snapName,
                                       StateAvailable) :
        IF err THEN Return(p, Ret("snapshotWaitError"))
        ELSE Goto(p, "Clone.refetch")
    /\ UNCHANGED <<host, vols, snaps, clock, calls, volConfig, frame>>

\* CreateClone: re-fetch the new snapshot
CloneRefetchSnapshot(p) ==
    /\ pc[p] = "Clone.refetch"
    /\ sdkCalls' = Log(p, <<Call("SnapshotForVolume")>>)
    /\ \E failed \in BOOLEAN :
        LET found == SnapshotsForVolume(frame[p].sourceVolume.id, frame[p].snapName)
        IN  IF failed \/ found = {}
            THEN /\ Return(p, Ret("snapshotRefetchError"))
                 /\ UNCHANGED frame
            ELSE \E sn \in found :
                    /\ frame' = [frame EXCEPT ![p].sourceSnapshot = sn.name]
                    /\ CloneAfterSnapshot(p)
    /\ UNCHANGED <<host, vols, snaps, clock, calls, volConfig>>

\* a create request that names no snapshot
CloneRequest_WithoutSnapshot(cfg, sourceVolume, sourceSnapshot) ==
    [CapacityPool |-> sourceVolume.CapacityPool,
     Name |-> cfg.Name,
     CreationToken |-> cfg.InternalName,
     ProtocolTypes |-> sourceVolume.ProtocolTypes,
     QuotaInBytes |-> sourceVolume.QuotaInBytes,
     SnapshotDirectory |-> sourceVolume.SnapshotDirectory,
     KerberosEnabled |-> Config.NASType = NFS /\ sourceVolume.KerberosEnabled,
     UnixPermissions |-> IF Config.NASType = NFS THEN sourceVolume.UnixPermissions ELSE "",
     ExportRule |-> IF Config.NASType = NFS THEN sourceVolume.ExportRule ELSE NoExportRule,
     SnapshotID |-> NoSnapName]
\* CreateClone: the create request, which takes the source volume's shape
CloneRequest(cfg, sourceVolume, sourceSnapshot) ==
    [CapacityPool |-> sourceVolume.CapacityPool,
     Name |-> cfg.Name,
     CreationToken |-> cfg.InternalName,
     ProtocolTypes |-> sourceVolume.ProtocolTypes,
     QuotaInBytes |-> sourceVolume.QuotaInBytes,
     SnapshotDirectory |-> sourceVolume.SnapshotDirectory,
     KerberosEnabled |-> Config.NASType = NFS /\ sourceVolume.KerberosEnabled,
     UnixPermissions |-> IF Config.NASType = NFS THEN sourceVolume.UnixPermissions ELSE "",
     ExportRule |-> IF Config.NASType = NFS THEN sourceVolume.ExportRule ELSE NoExportRule,
     SnapshotID |-> sourceSnapshot]

\* CreateClone: CreateVolume from the snapshot, save the ID, wait
CloneCreateVolume(p) ==
    /\ pc[p] = "Clone.create"
    /\ LET req == CloneRequest(volConfig[p], frame[p].sourceVolume, frame[p].sourceSnapshot)
       IN  /\ sdkCalls' = Log(p, <<CallWith("CreateVolume", req.CapacityPool, "")>>)
           /\ \/ /\ Return(p, Ret("createError"))
                 /\ UNCHANGED <<vols, volConfig, frame>>
              \/ \E volume \in CreateVolumeResults(req) :
                    /\ vols' = vols \cup {volume}
                    /\ volConfig' = [volConfig EXCEPT ![p] = SaveInternalID(@, volume.id)]
                    /\ frame' = [frame EXCEPT ![p].volume = volume.id,
                                              ![p].request = req]
                    /\ Goto(p, "wait")
    /\ UNCHANGED <<host, snaps, clock, calls>>

(* ------------------------------ Destroy -------------------------------- *)
\* the host calls Destroy, with a fresh descriptor or with the descriptor its
\* last Create or CreateClone left; a Destroy of the descriptor the slot's
\* last call destroyed is marked as a repeated call
DestroyCall(p) ==
    /\ Idle(p)
    /\ calls < MaxCalls
    /\ \E cfg \in host.destroyConfigs[p] \cup
                  (IF frame[p].op \in {"Create", "CreateClone"} THEN {volConfig[p]} ELSE {}) :
        /\ volConfig' = [volConfig EXCEPT ![p] = cfg]
        /\ frame' = [frame EXCEPT ![p] =
                        [NoFrame EXCEPT !.op = "Destroy", !.entry = cfg,
                                        !.retry = (frame[p].op = "Destroy" /\ frame[p].entry = cfg),
                                        !.prevRet = ret[p].kind]]
    /\ calls' = calls + 1
    /\ pc' = [pc EXCEPT ![p] = "Destroy.refresh"]
    /\ ret' = [ret EXCEPT ![p] = NoRet]
    /\ sdkCalls' = [sdkCalls EXCEPT ![p] = <<>>]
    /\ UNCHANGED <<host, vols, snaps, clock>>

\* Destroy: RefreshAzureResources
DestroyRefresh(p) ==
    /\ pc[p] = "Destroy.refresh"
    /\ sdkCalls' = Log(p, <<Call("RefreshAzureResources")>>)
    /\ \E refreshed \in BOOLEAN :
        IF ~refreshed THEN Return(p, Ret("refreshError"))
        ELSE Goto(p, "Destroy.exists")
    /\ UNCHANGED <<host, vols, snaps, clock, calls, volConfig, frame>>

\* a Destroy that deletes whatever the existence check says
DestroyCase_AlwaysDeletes(found, state) == "delete"
\* a Destroy that deletes a volume that is already deleting
DestroyCase_NoRetryCase(found, state) ==
    IF found = {} THEN "missing" ELSE "delete"
\* Destroy: the branch taken after the existence check
DestroyCase(found, state) ==
    IF found = {} THEN "missing"
    ELSE IF state = StateDeleting THEN "deleting"
    ELSE "delete"

\* Destroy: VolumeExists; a missing volume is success, a volume that is
\* already deleting is only waited for
DestroyVolumeExists(p) ==
    /\ pc[p] = "Destroy.exists"
    /\ sdkCalls' = Log(p, <<Call("VolumeExists")>>)
    /\ \E failed \in BOOLEAN :
        LET found == VolumeLookup(volConfig[p])
            seen == IF found = {} THEN {"absent"} ELSE {v.state : v \in found}
            ids == IF found = {} THEN {NoID} ELSE {v.id : v \in found}
        IN  IF failed
            THEN /\ Return(p, Ret("existsCheckError"))
                 /\ UNCHANGED frame
            ELSE \E state \in seen, id \in ids :
                    LET case == DestroyCase(found, state)
                    IN  /\ frame' = [frame EXCEPT ![p].extant = state, ![p].volume = id]
                        /\ CASE case = "missing" -> Return(p, Nil)
                             [] case = "deleting" -> Goto(p, "Destroy.waitRetry")
                             [] OTHER -> Goto(p, "Destroy.delete")
    /\ UNCHANGED <<host, vols, snaps, clock, calls, volConfig>>

\* Destroy: what the wait for Deleted makes it return
DestroyWaitReturn(o) == IF o.err THEN Ret("waitError") ELSE Nil

\* Destroy of a volume already deleting: wait with the volume-create timeout
DestroyWaitRetry(p) ==
    /\ pc[p] = "Destroy.waitRetry"
    /\ sdkCalls' = Log(p, <<CallWith("WaitForVolumeState", 0, "volumeCreateTimeout")>>)
    /\ \E o \in WaitForVolumeState(frame[p].volume, StateDeleted, {StateError}) :
        /\ frame' = [frame EXCEPT ![p].state = o.state, ![p].waitErr = o.err]
        /\ Return(p, DestroyWaitReturn(o))
    /\ UNCHANGED <<host, vols, snaps, clock, calls, volConfig>>

\* Destroy: DeleteVolume
DestroyDelete(p) ==
    /\ pc[p] = "Destroy.delete"
    /\ sdkCalls' = Log(p, <<Call("DeleteVolume")>>)
    /\ \E deleted \in BOOLEAN :
        IF deleted
        THEN /\ vols' = DeleteVolume(frame[p].volume)
             /\ Goto(p, "Destroy.wait")
        ELSE /\ Return(p, Ret("deleteError"))
             /\ UNCHANGED vols
    /\ UNCHANGED <<host, snaps, clock, calls, volConfig, frame>>

\* Destroy: wait for Deleted with the default timeout
DestroyWait(p) ==
    /\ pc[p] = "Destroy.wait"
    /\ sdkCalls' = Log(p, <<CallWith("WaitForVolumeState", 0, "defaultTimeout")>>)
    /\ \E o \in WaitForVolumeState(frame[p].volume, StateDeleted, {StateError}) :
        /\ frame' = [frame EXCEPT ![p].state = o.state, ![p].waitErr = o.err]
        /\ Return(p, DestroyWaitReturn(o))
    /\ UNCHANGED <<host, vols, snaps, clock, calls, volConfig>>

(* --------------------------- backend progress -------------------------- *)
SetSnapshotState(sn, st) == (snaps \ {sn}) \cup {[sn EXCEPT !.state = st]}

BackendSnapshotAvailable ==
    /\ \E sn \in snaps : sn.state = StateCreating /\ snaps' = SetSnapshotState(sn, StateAvailable)
    /\ UNCHANGED <<host, vols, clock, calls, pc, volConfig, frame, ret, sdkCalls>>

BackendSnapshotError ==
    /\ \E sn \in snaps : sn.state = StateCreating /\ snaps' = SetSnapshotState(sn, StateError)
    /\ UNCHANGED <<host, vols, clock, calls, pc, volConfig, frame, ret, sdkCalls>>

SetState(v, st) == (vols \ {v}) \cup {[v EXCEPT !.state = st]}

BackendCreating ==
    /\ \E v \in vols : v.state = StateAccepted /\ vols' = SetState(v, StateCreating)
    /\ UNCHANGED <<host, snaps, clock, calls, pc, volConfig, frame, ret, sdkCalls>>

BackendAvailable ==
    /\ \E v \in vols : v.state = StateCreating /\ vols' = SetState(v, StateAvailable)
    /\ UNCHANGED <<host, snaps, clock, calls, pc, volConfig, frame, ret, sdkCalls>>

BackendError ==
    /\ \E v \in vols : v.state = StateCreating /\ vols' = SetState(v, StateError)
    /\ UNCHANGED <<host, snaps, clock, calls, pc, volConfig, frame, ret, sdkCalls>>

BackendDeleted ==
    /\ \E v \in vols : v.state = StateDeleting /\ vols' = vols \ {v}
    /\ UNCHANGED <<host, snaps, clock, calls, pc, volConfig, frame, ret, sdkCalls>>

Next ==
    \/ \E p \in Procs : CreateCall(p)
    \/ \E p \in Procs : CreateRetry(p)
    \/ \E p \in Procs : CreateRefresh(p)
    \/ \E p \in Procs : CreateVolumeExists(p)
    \/ \E p \in Procs : CreatePlace(p)
    \/ \E p \in Procs : CreateTryCapacityPool(p)
    \/ \E p \in Procs : WaitForVolumeCreate(p)
    \/ \E p \in Procs : WaitCreateDeleting(p)
    \/ \E p \in Procs : WaitCreateCleanup(p)
    \/ \E p \in Procs : CloneCall(p)
    \/ \E p \in Procs : CloneRefresh(p)
    \/ \E p \in Procs : CloneSource(p)
    \/ \E p \in Procs : CloneVolumeExists(p)
    \/ \E p \in Procs : CloneGetSnapshot(p)
    \/ \E p \in Procs : CloneCreateSnapshot(p)
    \/ \E p \in Procs : CloneWaitSnapshot(p)
    \/ \E p \in Procs : CloneRefetchSnapshot(p)
    \/ \E p \in Procs : CloneCreateVolume(p)
    \/ \E p \in Procs : DestroyCall(p)
    \/ \E p \in Procs : DestroyRefresh(p)
    \/ \E p \in Procs : DestroyVolumeExists(p)
    \/ \E p \in Procs : DestroyWaitRetry(p)
    \/ \E p \in Procs : DestroyDelete(p)
    \/ \E p \in Procs : DestroyWait(p)
    \/ BackendCreating
    \/ BackendAvailable
    \/ BackendError
    \/ BackendDeleted
    \/ BackendSnapshotAvailable
    \/ BackendSnapshotError

Spec == Init /\ [][Next]_vars

(* ------------------------------ Initialize ----------------------------- *)
ServiceLevels == {"Standard", "Premium", "Ultra", ""}

\* a validation that fails a kerberos pool when the entitlement is missing
validatePool_ACPRequired(pool, acpEnabled) ==
    CASE pool.ServiceLevel \notin ServiceLevels -> "invalidServiceLevel"
      [] pool.SnapshotDir # "" /\ ~ParseBoolOK(pool.SnapshotDir) -> "invalidSnapshotDir"
      [] ~pool.Size.ok -> "invalidSize"
      [] ~pool.labelsOK -> "invalidLabel"
      [] pool.Kerberos # "" /\ ~acpEnabled -> "requiresACP"
      [] OTHER -> ""
\* validate, the checks on one pool: the error, "" if they pass.  A missing
\* entitlement on a kerberos pool is logged as a warning and is no error.
validatePool(pool, acpEnabled) ==
    CASE pool.ServiceLevel \notin ServiceLevels -> "invalidServiceLevel"
      [] pool.SnapshotDir # "" /\ ~ParseBoolOK(pool.SnapshotDir) -> "invalidSnapshotDir"
      [] ~pool.Size.ok -> "invalidSize"
      [] ~pool.labelsOK -> "invalidLabel"
      [] OTHER -> ""

\* validate: the errors it may return (the pools are visited in no fixed
\* order); none if every pool passes
validate(acpEnabled) ==
    {validatePool(pools[n], acpEnabled) : n \in DOMAIN pools} \ {""}

\* the host calls Initialize: the SDK client is set up, then the
\* configuration is validated
Initialize(p) ==
    /\ Idle(p)
    /\ calls < MaxCalls
    /\ host.initialize[p]
    /\ \E sdkOK \in BOOLEAN, acpEnabled \in BOOLEAN :
        /\ frame' = [frame EXCEPT ![p] =
                        [NoFrame EXCEPT !.op = "Initialize",
                                        !.acp = IF sdkOK THEN ACPAnswer(acpEnabled)
                                                ELSE "unasked"]]
        /\ IF ~sdkOK THEN ret' = [ret EXCEPT ![p] = Ret("sdkInitError")]
           ELSE IF validate(acpEnabled) = {} THEN ret' = [ret EXCEPT ![p] = Nil]
           ELSE \E e \in validate(acpEnabled) : ret' = [ret EXCEPT ![p] = Ret(e)]
    /\ calls' = calls + 1
    /\ pc' = [pc EXCEPT ![p] = "done"]
    /\ volConfig' = [volConfig EXCEPT ![p] = NoCfg]
    /\ sdkCalls' = [sdkCalls EXCEPT ![p] = <<Call("Init")>>]
    /\ UNCHANGED <<host, vols, snaps, clock>>

(* ------------------- one caller creating volumes ----------------------- *)
\* the good descriptor with a size and mount options
SizedConfig(size, mountOptions) ==
    [GoodConfig EXCEPT !.Size = size, !.MountOptions = mountOptions]

\* requested sizes around the two minimums and the limit
CreateSizes ==
    {SizeStr(0), SizeStr(MinimumVolumeSizeBytes - 1), SizeStr(MinimumVolumeSizeBytes),
     SizeStr(Size50GiB), SizeStr(MinimumANFVolumeSizeBytes - 1),
     SizeStr(MinimumANFVolumeSizeBytes), SizeStr(MinimumANFVolumeSizeBytes + 1),
     SizeStr(Size200GiB), SizeStr(Size200GiB + 1), BadSizeStr}

\* arguments of Create: every size on the standard pool, the pools of every
\* kerberos mode with mount options that name NFS versions, the pools without
\* a subnet or a capacity pool, and service levels the capacity pools have or
\* have not
AttributeArgs ==
    {<<SizedConfig(sz, ""), "std">> : sz \in CreateSizes}
    \cup {<<SizedConfig(SizeStr(Size50GiB), mo), sp>> :
                mo \in {"", "nfsvers=4.1", "nfsvers=2"}, sp \in {"krb", "krb5i", "krb5p"}}
    \cup {<<SizedConfig(SizeStr(Size50GiB), mo), "std">> :
                mo \in {"nfsvers=4.1", "nfsvers=4", "nfsvers=2"}}
    \cup {<<SizedConfig(SizeStr(Size50GiB), ""), "badkrb">>}
    \cup {<<SizedConfig(SizeStr(0), ""), sp>> : sp \in {"nosubnet", "nocpool"}}
    \cup {<<[GoodConfig EXCEPT !.ServiceLevel = sl], "std">> : sl \in {"ultra", "premium"}}

\* The arguments the host passes when one caller creates volumes with every
\* kind of attribute, and the driver is initialized again meanwhile.
CreateHost ==
    [createArgs |-> [p \in Procs |-> IF p = "c1" THEN AttributeArgs ELSE {}],
     cloneArgs |-> [p \in Procs |-> {}],
     destroyConfigs |-> [p \in Procs |-> {}],
     resizeArgs |-> [p \in Procs |-> {}],
     initialize |-> [p \in Procs |-> p = "c2"],
     nasType |-> NFS,
     kerberos |-> "",
     limitVolumeSize |-> SizeStr(Size200GiB)]

\* 75 GiB, a limit below the protocol floor
Size75GiB == Size50GiB + Size50GiB \div 2

\* the backend is configured with a limit above or below the protocol floor
CreateInit ==
    /\ host \in {[CreateHost EXCEPT !.limitVolumeSize = SizeStr(limit)] :
                    limit \in {Size200GiB, Size75GiB}}
    /\ vols = {SourceA, SourceB}
    /\ snaps = {Snapshot(SourceA.id, SnapAvailable, StateAvailable),
                Snapshot(SourceA.id, SnapFailed, StateError)}
    /\ clock = 1
    /\ calls = 0
    /\ pc = [p \in Procs |-> "idle"]
    /\ volConfig = [p \in Procs |-> NoCfg]
    /\ frame = [p \in Procs |-> NoFrame]
    /\ ret = [p \in Procs |-> NoRet]
    /\ sdkCalls = [p \in Procs |-> <<>>]

CreateNext ==
    \/ \E p \in Procs : Initialize(p)
    \/ \E p \in Procs : CreateCall(p)
    \/ \E p \in Procs : CreateRetry(p)
    \/ \E p \in Procs : CreateRefresh(p)
    \/ \E p \in Procs : CreateVolumeExists(p)
    \/ \E p \in Procs : CreatePlace(p)
    \/ \E p \in Procs : CreateTryCapacityPool(p)
    \/ \E p \in Procs : WaitForVolumeCreate(p)
    \/ \E p \in Procs : WaitCreateCleanup(p)
    \/ BackendCreating
    \/ BackendAvailable
    \/ BackendError
    \/ BackendDeleted

CreateSpec == CreateInit /\ [][CreateNext]_vars

(* ------------------------------ Resize --------------------------------- *)
\* drivers.CheckVolumeSizeLimits(requested size, config): whether the size
\* exceeds the configured limit, if there is one
CheckVolumeSizeLimits(sizeBytes) ==
    Config.LimitVolumeSize.ok /\ (sizeBytes.wrap \/ sizeBytes.n > Config.LimitVolumeSize.n)

\* SDK.ResizeVolume on the backend: the quota of the volume becomes n
ResizeVolume(id, n) ==
    {IF v.id = id THEN [v EXCEPT !.QuotaInBytes = n] ELSE v : v \in vols}

\* the host calls Resize
ResizeCall(p) ==
    /\ Idle(p)
    /\ calls < MaxCalls
    /\ \E args \in host.resizeArgs[p] :
        /\ volConfig' = [volConfig EXCEPT ![p] = args[1]]
        /\ frame' = [frame EXCEPT ![p] =
                        [NoFrame EXCEPT !.op = "Resize", !.entry = args[1],
                                        !.sizeBytes = args[2]]]
    /\ calls' = calls + 1
    /\ pc' = [pc EXCEPT ![p] = "Resize.refresh"]
    /\ ret' = [ret EXCEPT ![p] = NoRet]
    /\ sdkCalls' = [sdkCalls EXCEPT ![p] = <<>>]
    /\ UNCHANGED <<host, vols, snaps, clock>>

\* Resize: RefreshAzureResources
ResizeRefresh(p) ==
    /\ pc[p] = "Resize.refresh"
    /\ sdkCalls' = Log(p, <<Call("RefreshAzureResources")>>)
    /\ \E refreshed \in BOOLEAN :
        IF ~refreshed THEN Return(p, Ret("refreshError"))
        ELSE Goto(p, "Resize.volume")
    /\ UNCHANGED <<host, vols, snaps, clock, calls, volConfig, frame>>

\* a Resize that does not look at the state of the volume
ResizeCheck_AnyState(volume, sizeBytes) ==
    CASE Int64Equal(sizeBytes, volume.QuotaInBytes) -> "noop"
      [] Int64Less(sizeBytes, volume.QuotaInBytes) -> "shrink"
      [] CheckVolumeSizeLimits(sizeBytes) -> "sizeLimitExceeded"
      [] OTHER -> ""
\* a Resize that sends a request for the current size to the backend
ResizeCheck_NoEqualCase(volume, sizeBytes) ==
    CASE volume.state # StateAvailable -> "notAvailable"
      [] Int64Less(sizeBytes, volume.QuotaInBytes) -> "shrink"
      [] CheckVolumeSizeLimits(sizeBytes) -> "sizeLimitExceeded"
      [] OTHER -> ""
\* a Resize that lets the volume shrink
ResizeCheck_NoShrinkCase(volume, sizeBytes) ==
    CASE volume.state # StateAvailable -> "notAvailable"
      [] Int64Equal(sizeBytes, volume.QuotaInBytes) -> "noop"
      [] CheckVolumeSizeLimits(sizeBytes) -> "sizeLimitExceeded"
      [] OTHER -> ""
\* Resize, the checks between SDK.Volume and SDK.ResizeVolume, in the order
\* of the code: what ends the call, "" if the resize goes ahead
ResizeCheck(volume, sizeBytes) ==
    CASE volume.state # StateAvailable -> "notAvailable"
      [] Int64Equal(sizeBytes, volume.QuotaInBytes) -> "noop"
      [] Int64Less(sizeBytes, volume.QuotaInBytes) -> "shrink"
      [] CheckVolumeSizeLimits(sizeBytes) -> "sizeLimitExceeded"
      [] OTHER -> ""

\* Resize: get the volume, heal the identifier of a legacy descriptor, then
\* the state and size checks; the descriptor's size is set to the volume's
\* quota once the volume is known to be Available
ResizeGetVolume(p) ==
    /\ pc[p] = "Resize.volume"
    /\ sdkCalls' = Log(p, <<Call("Volume")>>)
    /\ \E failed \in BOOLEAN :
        LET found == VolumeLookup(volConfig[p])
        IN  IF failed \/ found = {}
            THEN /\ Return(p, Ret("volumeNotFound"))
                 /\ UNCHANGED <<volConfig, frame>>
            ELSE \E volume \in found :
                    LET check == ResizeCheck(volume, frame[p].sizeBytes)
                        healed == IF volConfig[p].InternalID = NoID
                                  THEN [volConfig[p] EXCEPT !.InternalID = volume.id]
                                  ELSE volConfig[p]
                    IN  /\ frame' = [frame EXCEPT ![p].found = volume, ![p].volume = volume.id,
                                                  ![p].extant = volume.state]
                        /\ volConfig' = [volConfig EXCEPT ![p] =
                                IF check = "notAvailable" THEN healed
                                ELSE [healed EXCEPT !.Size = SizeStr(volume.QuotaInBytes)]]
                        /\ CASE check = "" -> Goto(p, "Resize.resize")
                             [] check = "noop" -> Return(p, Nil)
                             [] OTHER -> Return(p, Ret(check))
    /\ UNCHANGED <<host, vols, snaps, clock, calls>>

\* Resize: ResizeVolume, then the new size is written to the descriptor
ResizeResizeVolume(p) ==
    /\ pc[p] = "Resize.resize"
    /\ sdkCalls' = Log(p, <<Call("ResizeVolume")>>)
    /\ \E resized \in BOOLEAN :
        IF resized
        THEN /\ vols' = ResizeVolume(frame[p].volume, frame[p].sizeBytes.n)
             /\ volConfig' = [volConfig EXCEPT ![p].Size = SizeStr(frame[p].sizeBytes.n)]
             /\ Return(p, Nil)
        ELSE /\ Return(p, Ret("resizeError"))
             /\ UNCHANGED <<vols, volConfig>>
    /\ UNCHANGED <<host, snaps, clock, calls, frame>>

(* ----------------- operations on a volume that exists ------------------ *)
Size150GiB == MinimumANFVolumeSizeBytes + Size50GiB
\* a size above the configured limit, which a volume not created by this
\* driver configuration (an imported one) may have
Size250GiB == Size200GiB + Size50GiB

\* the descriptor of the first source volume once its identifier is known
SourceConfigAWithID == [SourceConfigA EXCEPT !.InternalID = CreateVolumeID(1, SourceName)]

\* arguments of Resize: descriptor and requested size
ResizeArgs ==
    {<<SourceConfigA, sz>> : sz \in {UInt64(Size50GiB), UInt64(MinimumANFVolumeSizeBytes),
                                     UInt64(Size150GiB), UInt64(Size200GiB + 1),
                                     UInt64(Size250GiB), UInt64Wrapping}}
    \cup {<<SourceConfigAWithID, UInt64(Size150GiB)>>, <<GoodConfig, UInt64(Size150GiB)>>}

\* The arguments the host passes when it works on volumes that exist: the
\* first caller resizes, the second destroys.
VolumeHost ==
    [createArgs |-> [p \in Procs |-> {}],
     cloneArgs |-> [p \in Procs |-> {}],
     destroyConfigs |-> [p \in Procs |-> IF p = "c2" THEN {SourceConfigA, GoodConfig} ELSE {}],
     resizeArgs |-> [p \in Procs |-> IF p = "c1" THEN ResizeArgs ELSE {}],
     nasType |-> NFS,
     kerberos |-> "",
     limitVolumeSize |-> SizeStr(Size200GiB)]

\* states in which the backend may hold a volume
VolumeStates ==
    {StateAccepted, StateCreating, StateAvailable, StateDeleting, StateError,
     StateMoving, StateReverting}

\* the first source volume is in any state, with a quota within or above the
\* configured limit, when the first call is issued
VolumeInit ==
    /\ host = VolumeHost
    /\ \E st \in VolumeStates, quota \in {MinimumANFVolumeSizeBytes, Size250GiB} :
        vols = {[SourceA EXCEPT !.state = st, !.QuotaInBytes = quota], SourceB}
    /\ snaps = {Snapshot(SourceA.id, SnapAvailable, StateAvailable),
                Snapshot(SourceA.id, SnapFailed, StateError)}
    /\ clock = 1
    /\ calls = 0
    /\ pc = [p \in Procs |-> "idle"]
    /\ volConfig = [p \in Procs |-> NoCfg]
    /\ frame = [p \in Procs |-> NoFrame]
    /\ ret = [p \in Procs |-> NoRet]
    /\ sdkCalls = [p \in Procs |-> <<>>]

VolumeNext ==
    \/ \E p \in Procs : ResizeCall(p)
    \/ \E p \in Procs : ResizeRefresh(p)
    \/ \E p \in Procs : ResizeGetVolume(p)
    \/ \E p \in Procs : ResizeResizeVolume(p)
    \/ \E p \in Procs : DestroyCall(p)
    \/ \E p \in Procs : DestroyRefresh(p)
    \/ \E p \in Procs : DestroyVolumeExists(p)
    \/ \E p \in Procs : DestroyWaitRetry(p)
    \/ \E p \in Procs : DestroyDelete(p)
    \/ \E p \in Procs : DestroyWait(p)
    \/ BackendCreating
    \/ BackendAvailable
    \/ BackendError
    \/ BackendDeleted

VolumeSpec == VolumeInit /\ [][VolumeNext]_vars

(* ----------------------- callers cloning volumes ----------------------- *)
\* a second name for a clone, with the creation token of the first
CloneNameB == Str(<<"Z", "7">>, 0)

\* The arguments the host passes when it clones the two source volumes: the
\* first caller with and without a named snapshot, read-only or not, and
\* under a second name with the same creation token; the second caller makes
\* the same plain clone as the first.
CloneHost ==
    [createArgs |-> [p \in Procs |-> {}],
     cloneArgs |-> [p \in Procs |->
        IF p = "c2" THEN {<<SourceConfigA, CloneConfig(NoSnapName, FALSE)>>}
        ELSE {<<SourceConfigA, CloneConfig(snap, ro)>> :
                    snap \in {NoSnapName, SnapAvailable, SnapFailed, SnapMissing},
                    ro \in BOOLEAN}
             \cup {<<SourceConfigB, CloneConfig(NoSnapName, TRUE)>>,
                   <<SourceConfigA, VolCfg(CloneNameB, CloneToken, SizeStr(0), "",
                                           NoSnapName, FALSE)>>}],
     destroyConfigs |-> [p \in Procs |-> {}],
     nasType |-> NFS,
     kerberos |-> "",
     limitVolumeSize |-> SizeStr(Size200GiB)]

CloneInit ==
    /\ host = CloneHost
    /\ vols = {SourceA, SourceB}
    /\ snaps = {Snapshot(SourceA.id, SnapAvailable, StateAvailable),
                Snapshot(SourceA.id, SnapFailed, StateError)}
    /\ clock = 1
    /\ calls = 0
    /\ pc = [p \in Procs |-> "idle"]
    /\ volConfig = [p \in Procs |-> NoCfg]
    /\ frame = [p \in Procs |-> NoFrame]
    /\ ret = [p \in Procs |-> NoRet]
    /\ sdkCalls = [p \in Procs |-> <<>>]

CloneNext ==
    \/ \E p \in Procs : CloneCall(p)
    \/ \E p \in Procs : CloneRefresh(p)
    \/ \E p \in Procs : CloneSource(p)
    \/ \E p \in Procs : CloneVolumeExists(p)
    \/ \E p \in Procs : CloneGetSnapshot(p)
    \/ \E p \in Procs : CloneCreateSnapshot(p)
    \/ \E p \in Procs : CloneWaitSnapshot(p)
    \/ \E p \in Procs : CloneRefetchSnapshot(p)
    \/ \E p \in Procs : CloneCreateVolume(p)
    \/ \E p \in Procs : WaitForVolumeCreate(p)
    \/ \E p \in Procs : WaitCreateCleanup(p)
    \/ BackendCreating
    \/ BackendAvailable
    \/ BackendError
    \/ BackendDeleted
    \/ BackendSnapshotAvailable
    \/ BackendSnapshotError

CloneSpec == CloneInit /\ [][CloneNext]_vars

(* ------------------------------ Import --------------------------------- *)
\* capacity pools the backend configuration references
ConfiguredCapacityPools ==
    UNION {{pools[n].cPools[i] : i \in DOMAIN pools[n].cPools} : n \in DOMAIN pools}

\* SDK.EnsureVolumeInValidCapacityPool(volume): whether the capacity pool of
\* the volume is one of the backend's
EnsureVolumeInValidCapacityPool(volume) == volume.CapacityPool \in ConfiguredCapacityPools

\* utils.ValidateOctalUnixPermissions
ValidateOctalUnixPermissions(perms) == perms \in {"0755", "0777", "0700"}

\* SDK.ModifyVolume(volume, labels, unixPermissions, snapshotDirAccess,
\* exportRule) on the backend; the permissions are left alone if none are
\* passed
ModifyVolume(id, unixPermissions, snapshotDirAccess, exportRule) ==
    {IF v.id = id
     THEN [v EXCEPT !.UnixPermissions = IF unixPermissions = "nil" THEN @ ELSE unixPermissions,
                    !.SnapshotDirectory = snapshotDirAccess,
                    !.ExportRule = exportRule]
     ELSE v : v \in vols}

\* a check that lets volumes with two protocol types pass
ImportDualProtocol_Allowed(volume) == FALSE
\* Import: the volume has more than one protocol type
ImportDualProtocol(volume) == Len(volume.ProtocolTypes) > 1

\* an Import that manages every volume
ImportManaged_Always(cfg) == TRUE
\* Import: Trident will manage the lifecycle of the volume
ImportManaged(cfg) == ~cfg.ImportNotManaged

\* Import, the export rule handed to ModifyVolume
ImportExportRule(kerberos) ==
    [NoExportRule EXCEPT !.Nfsv41 = kerberos \in KerberosModes,
                         !.Kerberos5ReadWrite = (kerberos = "sec=krb5"),
                         !.Kerberos5IReadWrite = (kerberos = "sec=krb5i"),
                         !.Kerberos5PReadWrite = (kerberos = "sec=krb5p")]

\* Import, the unix permissions of an NFS volume: descriptor, then backend
\* configuration, then the volume's own
ImportUnixPermissions(cfg, volume) ==
    IF cfg.UnixPermissions # "" THEN cfg.UnixPermissions
    ELSE IF Config.UnixPermissions # "" THEN Config.UnixPermissions
    ELSE volume.UnixPermissions

\* Import of a managed volume, the checks between the capacity pool check and
\* ModifyVolume: the error, "" if ModifyVolume is to be called
ImportCheck(cfg, volume, acpEnabled) ==
    CASE cfg.SnapshotDir # "" /\ ~ParseBoolOK(cfg.SnapshotDir) -> "invalidSnapshotDir"
      [] Config.Kerberos # "" /\ ~acpEnabled -> "requiresACP"
      [] Config.Kerberos # "" /\ ~volume.KerberosEnabled -> "nonKerberosVolume"
      [] Config.Kerberos = "" /\ volume.KerberosEnabled -> "kerberosVolume"
      [] Config.NASType = SMB /\ volume.ProtocolTypes[1] = "CIFS" -> ""
      [] Config.NASType = NFS /\ volume.ProtocolTypes[1] \in {"NFSv3", "NFSv4.1"} ->
            IF ImportUnixPermissions(cfg, volume) # ""
               /\ ~ValidateOctalUnixPermissions(ImportUnixPermissions(cfg, volume))
            THEN "invalidUnixPermissions" ELSE ""
      [] OTHER -> "backendVolumeMismatch"

\* an Import that keeps the internal name the descriptor came with
ImportSave_KeepsInternalName(cfg, originalName, volume) ==
    [cfg EXCEPT !.InternalID = volume.id]
\* Import, last step: the creation token becomes the internal name, and the
\* identifier is saved
ImportSave(cfg, originalName, volume) ==
    [cfg EXCEPT !.InternalName = originalName, !.InternalID = volume.id]

\* the host calls Import
ImportCall(p) ==
    /\ Idle(p)
    /\ calls < MaxCalls
    /\ \E args \in host.importArgs[p] :
        /\ volConfig' = [volConfig EXCEPT ![p] = args[1]]
        /\ frame' = [frame EXCEPT ![p] =
                        [NoFrame EXCEPT !.op = "Import", !.entry = args[1],
                                        !.originalName = args[2]]]
    /\ calls' = calls + 1
    /\ pc' = [pc EXCEPT ![p] = "Import.refresh"]
    /\ ret' = [ret EXCEPT ![p] = NoRet]
    /\ sdkCalls' = [sdkCalls EXCEPT ![p] = <<>>]
    /\ UNCHANGED <<host, vols, snaps, clock>>

\* Import: RefreshAzureResources
ImportRefresh(p) ==
    /\ pc[p] = "Import.refresh"
    /\ sdkCalls' = Log(p, <<Call("RefreshAzureResources")>>)
    /\ \E refreshed \in BOOLEAN :
        IF refreshed THEN Goto(p, "Import.volume") ELSE Return(p, Ret("refreshError"))
    /\ UNCHANGED <<host, vols, snaps, clock, calls, volConfig, frame>>

\* Import: VolumeByCreationToken, then the dual-protocol check
ImportGetVolume(p) ==
    /\ pc[p] = "Import.volume"
    /\ sdkCalls' = Log(p, <<Call("VolumeByCreationToken")>>)
    /\ \E failed \in BOOLEAN :
        LET found == VolumesByCreationToken(frame[p].originalName)
        IN  IF failed \/ found = {}
            THEN /\ Return(p, Ret("volumeNotFound"))
                 /\ UNCHANGED frame
            ELSE \E volume \in found :
                    /\ frame' = [frame EXCEPT ![p].found = volume]
                    /\ IF ImportDualProtocol(volume)
                       THEN Return(p, Ret("dualProtocol"))
                       ELSE Goto(p, "Import.ensure")
    /\ UNCHANGED <<host, vols, snaps, clock, calls, volConfig>>

\* Import: EnsureVolumeInValidCapacityPool, the size, and for a managed
\* volume the checks up to ModifyVolume; an unmanaged volume is done
ImportEnsure(p) ==
    /\ pc[p] = "Import.ensure"
    /\ sdkCalls' = Log(p, <<Call("EnsureVolumeInValidCapacityPool")>>)
    /\ LET volume == frame[p].found
           sized == [volConfig[p] EXCEPT !.Size = SizeStr(volume.QuotaInBytes)]
       IN  IF ~EnsureVolumeInValidCapacityPool(volume)
           THEN /\ Return(p, Ret("invalidCapacityPool"))
                /\ UNCHANGED <<volConfig, frame>>
           ELSE IF ~ImportManaged(volConfig[p])
           THEN /\ volConfig' = [volConfig EXCEPT
                        ![p] = ImportSave(sized, frame[p].originalName, volume)]
                /\ Return(p, Nil)
                /\ UNCHANGED frame
           ELSE \E acpEnabled \in BOOLEAN :
                    LET err == ImportCheck(volConfig[p], volume, acpEnabled)
                    IN  /\ volConfig' = [volConfig EXCEPT ![p] = sized]
                        /\ frame' = [frame EXCEPT ![p].acp =
                                IF Config.Kerberos = "" THEN "unasked"
                                ELSE IF acpEnabled THEN "enabled" ELSE "missing"]
                        /\ IF err # "" THEN Return(p, Ret(err))
                           ELSE Goto(p, "Import.modify")
    /\ UNCHANGED <<host, vols, snaps, clock, calls>>

\* Import of a managed volume: ModifyVolume
ImportModify(p) ==
    /\ pc[p] = "Import.modify"
    /\ sdkCalls' = Log(p, <<Call("ModifyVolume")>>)
    /\ LET volume == frame[p].found
           snapshotDirAccess == ParseBool(volConfig[p].SnapshotDir)
           unixPermissions == IF Config.NASType = SMB THEN "nil"
                              ELSE ImportUnixPermissions(volConfig[p], volume)
       IN  \E modified \in BOOLEAN :
            IF modified
            THEN /\ vols' = ModifyVolume(volume.id, unixPermissions, snapshotDirAccess,
                                         ImportExportRule(Config.Kerberos))
                 /\ Goto(p, "Import.wait")
            ELSE /\ Return(p, Ret("modifyError"))
                 /\ UNCHANGED vols
    /\ UNCHANGED <<host, snaps, clock, calls, volConfig, frame>>

\* Import of a managed volume: wait for Available, then save the internal
\* name and the identifier
ImportWait(p) ==
    /\ pc[p] = "Import.wait"
    /\ sdkCalls' = Log(p, <<CallWith("WaitForVolumeState", 0, "defaultTimeout")>>)
    /\ \E o \in WaitForVolumeState(frame[p].found.id, StateAvailable, {StateError}) :
        /\ frame' = [frame EXCEPT ![p].state = o.state, ![p].waitErr = o.err]
        /\ IF o.err
           THEN /\ Return(p, Ret("waitError"))
                /\ UNCHANGED volConfig
           ELSE /\ volConfig' = [volConfig EXCEPT
                        ![p] = ImportSave(@, frame[p].originalName, frame[p].found)]
                /\ Return(p, Nil)
    /\ UNCHANGED <<host, vols, snaps, clock, calls>>

(* ----------------------- callers importing volumes --------------------- *)
\* volumes that exist before the first call besides the two source volumes:
\* one with two protocol types, one SMB volume, and one in a capacity pool
\* the backend configuration does not reference
DualToken == Str(<<"t", "-", "d">>, 0)
SMBToken == Str(<<"t", "-", "c">>, 0)
ForeignToken == Str(<<"t", "-", "f">>, 0)
MissingToken == Str(<<"t", "-", "m">>, 0)
ForeignCapacityPool == MaxCandidates + 7
ImportVolume(name, token, protocolTypes, cPool) ==
    FileSystem(CreateVolumeID(cPool, name),
               [SourceRequest(name, token, FALSE, FALSE) EXCEPT
                    !.ProtocolTypes = protocolTypes, !.CapacityPool = cPool,
                    !.ExportRule = NoExportRule],
               StateAvailable)
ImportVolumes ==
    {ImportVolume(Str(<<"d">>, 0), DualToken, <<"NFSv3", "CIFS">>, 1),
     ImportVolume(Str(<<"c">>, 0), SMBToken, <<"CIFS">>, 1),
     ImportVolume(Str(<<"f">>, 0), ForeignToken, <<"NFSv3">>, ForeignCapacityPool)}

\* descriptors the host hands to Import: managed, unmanaged, and managed with
\* a snapshot directory option or permissions that do not parse
ImportConfig == VolCfg(Name64, Token80, SizeStr(0), "", NoSnapName, FALSE)
ImportConfigs ==
    {ImportConfig,
     [ImportConfig EXCEPT !.ImportNotManaged = TRUE],
     [ImportConfig EXCEPT !.SnapshotDir = "true", !.UnixPermissions = "0755"],
     [ImportConfig EXCEPT !.SnapshotDir = "maybe"],
     [ImportConfig EXCEPT !.UnixPermissions = "rwx"]}

\* arguments of Import: descriptor and original name
ImportArgs ==
    {<<cfg, SourceToken>> : cfg \in ImportConfigs}
    \cup {<<cfg, token>> : cfg \in {ImportConfig, [ImportConfig EXCEPT !.ImportNotManaged = TRUE]},
                           token \in {SourceTokenB, DualToken, SMBToken, ForeignToken,
                                      MissingToken}}

\* The arguments the host passes when it imports volumes: the first caller
\* imports every volume, the second the first source volume, unmanaged.
ImportHost ==
    [createArgs |-> [p \in Procs |-> {}],
     cloneArgs |-> [p \in Procs |-> {}],
     destroyConfigs |-> [p \in Procs |-> {}],
     importArgs |-> [p \in Procs |->
        IF p = "c1" THEN ImportArgs
        ELSE {<<[ImportConfig EXCEPT !.ImportNotManaged = TRUE], SourceToken>>}],
     nasType |-> NFS,
     kerberos |-> "",
     limitVolumeSize |-> SizeStr(Size200GiB)]

\* the backend is an NFS backend without or with kerberos, or an SMB backend;
\* the first source volume is Available or still being created
ImportInit ==
    /\ host \in {[ImportHost EXCEPT !.nasType = c[1], !.kerberos = c[2]] :
                    c \in {<<NFS, "">>, <<NFS, "sec=krb5p">>, <<SMB, "">>}}
    /\ \E st \in {StateAvailable, StateCreating} :
        vols = {[SourceA EXCEPT !.state = st], SourceB} \cup ImportVolumes
    /\ snaps = {}
    /\ clock = 1
    /\ calls = 0
    /\ pc = [p \in Procs |-> "idle"]
    /\ volConfig = [p \in Procs |-> NoCfg]
    /\ frame = [p \in Procs |-> NoFrame]
    /\ ret = [p \in Procs |-> NoRet]
    /\ sdkCalls = [p \in Procs |-> <<>>]

ImportNext ==
    \/ \E p \in Procs : ImportCall(p)
    \/ \E p \in Procs : ImportRefresh(p)
    \/ \E p \in Procs : ImportGetVolume(p)
    \/ \E p \in Procs : ImportEnsure(p)
    \/ \E p \in Procs : ImportModify(p)
    \/ \E p \in Procs : ImportWait(p)
    \/ BackendAvailable
    \/ BackendError

ImportSpec == ImportInit /\ [][ImportNext]_vars

(* -------------------------- snapshot operations ------------------------ *)
SnapshotOps ==
    {"GetSnapshot", "GetSnapshots", "CreateSnapshot", "RestoreSnapshot", "DeleteSnapshot"}

\* the operations that resolve the parent volume with SDK.VolumeExists; the
\* others call SDK.Volume, which returns an error for a missing volume
UsesVolumeExists(op) == op \in {"GetSnapshot", "CreateSnapshot", "DeleteSnapshot"}

\* what an operation returns when the parent volume is missing: no snapshot
\* and no error, or an error
MissingParent(op) ==
    CASE op \in {"GetSnapshot", "DeleteSnapshot"} -> Nil
      [] op = "CreateSnapshot" -> Ret("volumeDoesNotExist")
      [] OTHER -> Ret("volumeNotFound")

\* SDK.RestoreSnapshot on the backend: the volume starts reverting
RestoreSnapshot(id) ==
    {IF v.id = id THEN [v EXCEPT !.state = StateReverting] ELSE v : v \in vols}

\* the host calls a snapshot operation with a volume descriptor and the
\* internal name of the snapshot configuration
SnapshotCall(p) ==
    /\ Idle(p)
    /\ calls < MaxCalls
    /\ \E args \in host.snapshotArgs[p] :
        /\ volConfig' = [volConfig EXCEPT ![p] = args[2]]
        /\ frame' = [frame EXCEPT ![p] =
                        [NoFrame EXCEPT !.op = args[1], !.entry = args[2],
                                        !.snapName = args[3]]]
    /\ calls' = calls + 1
    /\ pc' = [pc EXCEPT ![p] = "Snapshot.refresh"]
    /\ ret' = [ret EXCEPT ![p] = NoRet]
    /\ sdkCalls' = [sdkCalls EXCEPT ![p] = <<>>]
    /\ UNCHANGED <<host, vols, snaps, clock>>

\* every snapshot operation: RefreshAzureResources
SnapshotRefresh(p) ==
    /\ pc[p] = "Snapshot.refresh"
    /\ sdkCalls' = Log(p, <<Call("RefreshAzureResources")>>)
    /\ \E refreshed \in BOOLEAN :
        IF refreshed THEN Goto(p, "Snapshot.volume") ELSE Return(p, Ret("refreshError"))
    /\ UNCHANGED <<host, vols, snaps, clock, calls, volConfig, frame>>

\* every snapshot operation: resolve the parent volume
SnapshotParentVolume(p) ==
    /\ pc[p] = "Snapshot.volume"
    /\ LET op == frame[p].op
           found == VolumeLookup(volConfig[p])
       IN  /\ sdkCalls' = Log(p, <<Call(IF UsesVolumeExists(op) THEN "VolumeExists"
                                        ELSE "Volume")>>)
           /\ \E failed \in BOOLEAN :
                IF failed
                THEN /\ Return(p, Ret(IF UsesVolumeExists(op) THEN "existsCheckError"
                                      ELSE "volumeNotFound"))
                     /\ UNCHANGED frame
                ELSE IF found = {}
                THEN /\ frame' = [frame EXCEPT ![p].extant = "absent",
                                   ![p].result = IF MissingParent(op) = Nil
                                                 THEN "absent" ELSE "none"]
                     /\ Return(p, MissingParent(op))
                ELSE \E volume \in found :
                     /\ frame' = [frame EXCEPT ![p].extant = volume.state,
                                               ![p].found = volume]
                     /\ CASE op = "GetSnapshots" -> Goto(p, "Snapshot.list")
                          [] op = "CreateSnapshot" -> Goto(p, "Snapshot.create")
                          [] OTHER -> Goto(p, "Snapshot.lookup")
    /\ UNCHANGED <<host, vols, snaps, clock, calls, volConfig>>

\* GetSnapshot, RestoreSnapshot, DeleteSnapshot: SnapshotForVolume
SnapshotLookup(p) ==
    /\ pc[p] = "Snapshot.lookup"
    /\ sdkCalls' = Log(p, <<Call("SnapshotForVolume")>>)
    /\ LET op == frame[p].op
           found == SnapshotsForVolume(frame[p].found.id, frame[p].snapName)
       IN  \E failed \in BOOLEAN :
            IF failed
            THEN /\ Return(p, Ret("snapshotLookupError"))
                 /\ UNCHANGED frame
            ELSE IF found = {}
            THEN /\ frame' = [frame EXCEPT ![p].result =
                                    IF op = "RestoreSnapshot" THEN "none" ELSE "absent"]
                 /\ Return(p, IF op = "RestoreSnapshot" THEN Ret("snapshotNotFound") ELSE Nil)
            ELSE \E sn \in found :
                 CASE op = "GetSnapshot" ->
                        IF sn.state # StateAvailable
                        THEN /\ Return(p, Ret("snapshotNotAvailable"))
                             /\ UNCHANGED frame
                        ELSE /\ frame' = [frame EXCEPT ![p].result = "snapshot",
                                                       ![p].snapshots = {sn.name}]
                             /\ Return(p, Nil)
                   [] op = "RestoreSnapshot" ->
                        /\ frame' = [frame EXCEPT ![p].sourceSnapshot = sn.name,
                                                  ![p].state = sn.state]
                        /\ Goto(p, "Snapshot.restore")
                   [] OTHER ->
                        /\ frame' = [frame EXCEPT ![p].sourceSnapshot = sn.name]
                        /\ Goto(p, "Snapshot.delete")
    /\ UNCHANGED <<host, vols, snaps, clock, calls, volConfig>>

\* GetSnapshots: SnapshotsForVolume, of which the Available ones are returned
GetSnapshotsList(p) ==
    /\ pc[p] = "Snapshot.list"
    /\ sdkCalls' = Log(p, <<Call("SnapshotsForVolume")>>)
    /\ \E failed \in BOOLEAN :
        IF failed
        THEN /\ Return(p, Ret("snapshotListError"))
             /\ UNCHANGED frame
        ELSE /\ frame' = [frame EXCEPT ![p].result = "list", ![p].snapshots =
                    {sn.name : sn \in {x \in snaps : x.vol = frame[p].found.id
                                                      /\ x.state = StateAvailable}}]
             /\ Return(p, Nil)
    /\ UNCHANGED <<host, vols, snaps, clock, calls, volConfig>>

\* CreateSnapshot: SDK.CreateSnapshot
CreateSnapshotCreate(p) ==
    /\ pc[p] = "Snapshot.create"
    /\ sdkCalls' = Log(p, <<Call("CreateSnapshot")>>)
    /\ \E created \in BOOLEAN :
        IF created /\ SnapshotsForVolume(frame[p].found.id, frame[p].snapName) = {}
        THEN /\ snaps' = snaps \cup {Snapshot(frame[p].found.id, frame[p].snapName,
                                               StateCreating)}
             /\ Goto(p, "Snapshot.waitCreate")
        ELSE /\ Return(p, Ret("createSnapshotError"))
             /\ UNCHANGED snaps
    /\ UNCHANGED <<host, vols, clock, calls, volConfig, frame>>

\* CreateSnapshot: wait for the snapshot to be Available
CreateSnapshotWait(p) ==
    /\ pc[p] = "Snapshot.waitCreate"
    /\ sdkCalls' = Log(p, <<CallWith("WaitForSnapshotState", 0, "SnapshotTimeout")>>)
    /\ \E err \in WaitForSnapshotState(frame[p].found.id, frame[p].snapName, StateAvailable) :
        IF err
        THEN /\ Return(p, Ret("snapshotWaitError"))
             /\ UNCHANGED frame
        ELSE /\ frame' = [frame EXCEPT ![p].result = "snapshot",
                                       ![p].snapshots = {frame[p].snapName}]
             /\ Return(p, Nil)
    /\ UNCHANGED <<host, vols, snaps, clock, calls, volConfig>>

\* RestoreSnapshot: SDK.RestoreSnapshot
RestoreSnapshotRestore(p) ==
    /\ pc[p] = "Snapshot.restore"
    /\ sdkCalls' = Log(p, <<Call("RestoreSnapshot")>>)
    /\ \E restored \in BOOLEAN :
        IF restored
        THEN /\ vols' = RestoreSnapshot(frame[p].found.id)
             /\ Goto(p, "Snapshot.waitRestore")
        ELSE /\ Return(p, Ret("restoreError"))
             /\ UNCHANGED vols
    /\ UNCHANGED <<host, snaps, clock, calls, volConfig, frame>>

\* RestoreSnapshot: wait for the volume to be Available again
RestoreSnapshotWait(p) ==
    /\ pc[p] = "Snapshot.waitRestore"
    /\ sdkCalls' = Log(p, <<CallWith("WaitForVolumeState", 0, "DefaultSDKTimeout")>>)
    /\ \E o \in WaitForVolumeState(frame[p].found.id, StateAvailable,
                                    {StateError, StateDeleting, StateDeleted}) :
        /\ frame' = [frame EXCEPT ![p].waitErr = o.err]
        /\ Return(p, IF o.err THEN Ret("waitError") ELSE Nil)
    /\ UNCHANGED <<host, vols, snaps, clock, calls, volConfig>>

\* DeleteSnapshot: SDK.DeleteSnapshot
DeleteSnapshotDelete(p) ==
    /\ pc[p] = "Snapshot.delete"
    /\ sdkCalls' = Log(p, <<Call("DeleteSnapshot")>>)
    /\ \E deleted \in BOOLEAN :
        IF deleted
        THEN /\ snaps' = {IF sn.vol = frame[p].found.id /\ sn.name = frame[p].snapName
                          THEN [sn EXCEPT !.state = StateDeleting] ELSE sn : sn \in snaps}
             /\ Goto(p, "Snapshot.waitDelete")
        ELSE /\ Return(p, Ret("deleteSnapshotError"))
             /\ UNCHANGED snaps
    /\ UNCHANGED <<host, vols, clock, calls, volConfig, frame>>

\* DeleteSnapshot: wait for the snapshot to be Deleted
DeleteSnapshotWait(p) ==
    /\ pc[p] = "Snapshot.waitDelete"
    /\ sdkCalls' = Log(p, <<CallWith("WaitForSnapshotState", 0, "SnapshotTimeout")>>)
    /\ \E err \in WaitForSnapshotState(frame[p].found.id, frame[p].snapName, StateDeleted) :
        Return(p, IF err THEN Ret("snapshotWaitError") ELSE Nil)
    /\ UNCHANGED <<host, vols, snaps, clock, calls, volConfig, frame>>

\* the backend finishes the deletion of a snapshot
BackendSnapshotDeleted ==
    /\ \E sn \in snaps : sn.state = StateDeleting /\ snaps' = snaps \ {sn}
    /\ UNCHANGED <<host, vols, clock, calls, pc, volConfig, frame, ret, sdkCalls>>

\* the backend finishes a restore
BackendReverted ==
    /\ \E v \in vols : v.state = StateReverting /\ vols' = SetState(v, StateAvailable)
    /\ UNCHANGED <<host, snaps, clock, calls, pc, volConfig, frame, ret, sdkCalls>>

(* ------------------- callers working on snapshots ---------------------- *)
\* The arguments the host passes when it works on snapshots: the first caller
\* calls every operation on the first source volume and on a volume that does
\* not exist, the second creates and deletes snapshots of the source volume.
SnapshotHost ==
    [createArgs |-> [p \in Procs |-> {}],
     cloneArgs |-> [p \in Procs |-> {}],
     destroyConfigs |-> [p \in Procs |-> {}],
     snapshotArgs |-> [p \in Procs |->
        IF p = "c1"
        THEN {<<op, SourceConfigA, name>> :
                    op \in SnapshotOps \ {"GetSnapshots"},
                    name \in {SnapAvailable, SnapFailed, SnapMissing}}
             \cup {<<"GetSnapshots", SourceConfigA, NoSnapName>>}
             \cup {<<op, GoodConfig, SnapAvailable>> : op \in SnapshotOps}
        ELSE {<<"DeleteSnapshot", SourceConfigA, SnapAvailable>>,
              <<"CreateSnapshot", SourceConfigA, SnapMissing>>}],
     nasType |-> NFS,
     kerberos |-> "",
     limitVolumeSize |-> SizeStr(Size200GiB)]

SnapshotInit ==
    /\ host = SnapshotHost
    /\ vols = {SourceA, SourceB}
    /\ snaps = {Snapshot(SourceA.id, SnapAvailable, StateAvailable),
                Snapshot(SourceA.id, SnapFailed, StateError)}
    /\ clock = 1
    /\ calls = 0
    /\ pc = [p \in Procs |-> "idle"]
    /\ volConfig = [p \in Procs |-> NoCfg]
    /\ frame = [p \in Procs |-> NoFrame]
    /\ ret = [p \in Procs |-> NoRet]
    /\ sdkCalls = [p \in Procs |-> <<>>]

SnapshotNext ==
    \/ \E p \in Procs : SnapshotCall(p)
    \/ \E p \in Procs : SnapshotRefresh(p)
    \/ \E p \in Procs : SnapshotParentVolume(p)
    \/ \E p \in Procs : SnapshotLookup(p)
    \/ \E p \in Procs : GetSnapshotsList(p)
    \/ \E p \in Procs : CreateSnapshotCreate(p)
    \/ \E p \in Procs : CreateSnapshotWait(p)
    \/ \E p \in Procs : RestoreSnapshotRestore(p)
    \/ \E p \in Procs : RestoreSnapshotWait(p)
    \/ \E p \in Procs : DeleteSnapshotDelete(p)
    \/ \E p \in Procs : DeleteSnapshotWait(p)
    \/ BackendSnapshotAvailable
    \/ BackendSnapshotError
    \/ BackendSnapshotDeleted
    \/ BackendReverted

SnapshotSpec == SnapshotInit /\ [][SnapshotNext]_vars

(* ------------------ Publish, CreateFollowup, Get, List ----------------- *)
AccessOps == {"Publish", "CreateFollowup", "Get", "List"}

\* the storage prefix of the driver configuration
StoragePrefix == <<"t", "-">>
\* strings.HasPrefix(s, prefix)
HasPrefix(s, prefix) ==
    /\ Len(prefix) <= Len(s.chars)
    /\ SubSeq(s.chars, 1, Len(prefix)) = prefix
\* s[len(prefix):]
TrimPrefix(s, prefix) == Str(SubSeq(s.chars, Len(prefix) + 1, Len(s.chars)), s.pad)

\* api.MountTarget, and the mount targets the SDK may report for a volume:
\* one or none
MountTarget == [IPAddress |-> "ip", ServerFqdn |-> "fqdn"]
MountTargets(volume) == {<<>>, <<MountTarget>>}

\* constructVolumeAccessPath(volConfig, volume, protocol)
constructVolumeAccessPath(cfg, volume, protocol) ==
    CASE protocol = NFS ->
            IF cfg.ReadOnlyClone
            THEN <<"/", cfg.CloneSourceVolumeInternal, "/", ".snapshot", "/", cfg.CloneSourceSnapshot>>
            ELSE <<"/", volume.token>>
      [] protocol = SMB ->
            IF cfg.ReadOnlyClone
            THEN <<"\\", cfg.CloneSourceVolumeInternal, "\\", "~snapshot", "\\", cfg.CloneSourceSnapshot>>
            ELSE <<"\\", volume.token>>
      [] OTHER -> <<>>

\* Publish and CreateFollowup: the volume the call looks up, the source
\* volume for a read-only clone
AccessVolumes(cfg) ==
    IF cfg.ReadOnlyClone THEN VolumesByCreationToken(cfg.CloneSourceVolumeInternal)
    ELSE VolumeLookup(cfg)

\* Publish: the publish information for a volume with mount targets
PublishInfo(cfg, volume, targets) ==
    LET mountOptions == IF cfg.MountOptions # "" THEN cfg.MountOptions
                        ELSE Config.NfsMountOptions
        info == IF Config.NASType = SMB
                THEN [access |-> AccessInfoOf(cfg.AccessInfo.SMBPath, targets[1].ServerFqdn,
                                              <<>>, ""),
                      FilesystemType |-> SMB, MountOptions |-> ""]
                ELSE [access |-> AccessInfoOf(<<>>, "", cfg.AccessInfo.NfsPath,
                                              targets[1].IPAddress),
                      FilesystemType |-> NFS, MountOptions |-> mountOptions]
    IN  IF volume.KerberosEnabled
        THEN [info EXCEPT !.access.NfsServerIP = targets[1].ServerFqdn]
        ELSE info

\* CreateFollowup: the descriptor with the access information of the volume
FollowupSave(cfg, volume, targets) ==
    LET saved == IF Config.NASType = SMB
                 THEN [cfg EXCEPT !.AccessInfo.SMBPath =
                                        constructVolumeAccessPath(cfg, volume, SMB),
                                  !.AccessInfo.SMBServer = targets[1].ServerFqdn,
                                  !.FileSystem = SMB]
                 ELSE [cfg EXCEPT !.AccessInfo.NfsPath =
                                        constructVolumeAccessPath(cfg, volume, NFS),
                                  !.AccessInfo.NfsServerIP = targets[1].IPAddress,
                                  !.FileSystem = NFS]
    IN  IF volume.KerberosEnabled
        THEN [saved EXCEPT !.AccessInfo.NfsServerIP = targets[1].ServerFqdn]
        ELSE saved

\* List: the names of the volumes that are not Deleting, Deleted or in Error
\* and carry the storage prefix, without the prefix
ListNames(volumes) ==
    {TrimPrefix(v.token, StoragePrefix) :
        v \in {w \in volumes : /\ w.state \notin {StateDeleting, StateDeleted, StateError}
                               /\ HasPrefix(w.token, StoragePrefix)}}

\* the host calls Publish or CreateFollowup with a descriptor, Get with a
\* name (the internal name of the descriptor given here), or List
AccessCall(p) ==
    /\ Idle(p)
    /\ calls < MaxCalls
    /\ \E args \in host.accessArgs[p] :
        /\ volConfig' = [volConfig EXCEPT ![p] = args[2]]
        /\ frame' = [frame EXCEPT ![p] = [NoFrame EXCEPT !.op = args[1], !.entry = args[2]]]
    /\ calls' = calls + 1
    /\ pc' = [pc EXCEPT ![p] = "Access.refresh"]
    /\ ret' = [ret EXCEPT ![p] = NoRet]
    /\ sdkCalls' = [sdkCalls EXCEPT ![p] = <<>>]
    /\ UNCHANGED <<host, vols, snaps, clock>>

\* a call that goes on without refreshing the resource cache
AccessRefresh_Skipped(p) ==
    /\ pc[p] = "Access.refresh"
    /\ CASE frame[p].op = "Publish" -> Goto(p, "Publish.volume")
         [] frame[p].op = "CreateFollowup" -> Goto(p, "Followup.volume")
         [] frame[p].op = "Get" -> Goto(p, "Get.volume")
         [] OTHER -> Goto(p, "List.volumes")
    /\ UNCHANGED <<host, vols, snaps, clock, calls, volConfig, frame, sdkCalls>>
\* Publish, CreateFollowup, Get, List: RefreshAzureResources
AccessRefresh(p) ==
    /\ pc[p] = "Access.refresh"
    /\ sdkCalls' = Log(p, <<Call("RefreshAzureResources")>>)
    /\ \E refreshed \in BOOLEAN :
        IF ~refreshed THEN Return(p, Ret("refreshError"))
        ELSE CASE frame[p].op = "Publish" -> Goto(p, "Publish.volume")
               [] frame[p].op = "CreateFollowup" -> Goto(p, "Followup.volume")
               [] frame[p].op = "Get" -> Goto(p, "Get.volume")
               [] OTHER -> Goto(p, "List.volumes")
    /\ UNCHANGED <<host, vols, snaps, clock, calls, volConfig, frame>>

\* Publish: look the volume up, heal the identifier, check the mount targets,
\* fill in the publish information
PublishVolume(p) ==
    /\ pc[p] = "Publish.volume"
    /\ LET cfg == volConfig[p]
           found == AccessVolumes(cfg)
       IN  /\ sdkCalls' = Log(p, <<Call(IF cfg.ReadOnlyClone THEN "VolumeByCreationToken"
                                        ELSE "Volume")>>)
           /\ \E failed \in BOOLEAN :
                IF failed \/ found = {}
                THEN /\ Return(p, Ret("volumeNotFound"))
                     /\ UNCHANGED <<volConfig, frame>>
                ELSE \E volume \in found : \E targets \in MountTargets(volume) :
                     /\ volConfig' = [volConfig EXCEPT ![p] =
                            IF ~cfg.ReadOnlyClone /\ cfg.InternalID = NoID
                            THEN [cfg EXCEPT !.InternalID = volume.id] ELSE cfg]
                     /\ IF Len(targets) = 0
                        THEN /\ Return(p, Ret("noMountTargets"))
                             /\ frame' = [frame EXCEPT ![p].extant = volume.state,
                                                       ![p].found = volume]
                        ELSE /\ Return(p, Nil)
                             /\ frame' = [frame EXCEPT ![p].extant = volume.state,
                                            ![p].found = volume,
                                            ![p].publishInfo = PublishInfo(cfg, volume, targets)]
    /\ UNCHANGED <<host, vols, snaps, clock, calls>>

\* CreateFollowup: look the volume up, check its state and mount targets,
\* save the access information on the descriptor
FollowupVolume(p) ==
    /\ pc[p] = "Followup.volume"
    /\ LET cfg == volConfig[p]
           found == AccessVolumes(cfg)
       IN  /\ sdkCalls' = Log(p, <<Call(IF cfg.ReadOnlyClone THEN "VolumeByCreationToken"
                                        ELSE "Volume")>>)
           /\ \E failed \in BOOLEAN :
                IF failed \/ found = {}
                THEN /\ Return(p, Ret("volumeNotFound"))
                     /\ UNCHANGED <<volConfig, frame>>
                ELSE \E volume \in found : \E targets \in MountTargets(volume) :
                     /\ frame' = [frame EXCEPT ![p].extant = volume.state,
                                               ![p].found = volume]
                     /\ IF volume.state # StateAvailable
                        THEN Return(p, Ret("notAvailable")) /\ UNCHANGED volConfig
                        ELSE IF Len(targets) = 0
                        THEN Return(p, Ret("noMountTargets")) /\ UNCHANGED volConfig
                        ELSE /\ Return(p, Nil)
                             /\ volConfig' = [volConfig EXCEPT ![p] =
                                                FollowupSave(cfg, volume, targets)]
    /\ UNCHANGED <<host, vols, snaps, clock, calls>>

\* Get: the volume of the name must exist
GetVolume(p) ==
    /\ pc[p] = "Get.volume"
    /\ sdkCalls' = Log(p, <<Call("VolumeByCreationToken")>>)
    /\ LET found == VolumesByCreationToken(volConfig[p].InternalName)
       IN  \E failed \in BOOLEAN :
            IF failed \/ found = {}
            THEN Return(p, Ret("volumeNotFound")) /\ UNCHANGED frame
            ELSE \E volume \in found :
                 /\ frame' = [frame EXCEPT ![p].extant = volume.state, ![p].found = volume]
                 /\ Return(p, Nil)
    /\ UNCHANGED <<host, vols, snaps, clock, calls, volConfig>>

\* List: the names of the volumes of this backend
ListVolumes(p) ==
    /\ pc[p] = "List.volumes"
    /\ sdkCalls' = Log(p, <<Call("Volumes")>>)
    /\ \E failed \in BOOLEAN :
        IF failed THEN Return(p, Ret("listError")) /\ UNCHANGED frame
        ELSE /\ frame' = [frame EXCEPT ![p].volumeNames = ListNames(vols),
                                       ![p].result = "listed"]
             /\ Return(p, Nil)
    /\ UNCHANGED <<host, vols, snaps, clock, calls, volConfig>>

\* the backend starts moving a volume to another capacity pool
BackendMoving ==
    /\ \E v \in vols : v.state = StateAvailable /\ vols' = SetState(v, StateMoving)
    /\ UNCHANGED <<host, snaps, clock, calls, pc, volConfig, frame, ret, sdkCalls>>

(* ------------------ callers using every operation --------------------- *)
\* the descriptor of a read-only clone of the first source volume
ReadOnlyCloneConfig ==
    [CloneConfig(SnapAvailable, TRUE) EXCEPT !.CloneSourceVolumeInternal = SourceToken,
                                             !.CloneSourceSnapshot = SnapAvailable]

\* The arguments the host passes when it uses every operation: the first
\* caller calls any of them (a clone names its snapshot), the second destroys
\* the volume the first creates.
LifecycleHost ==
    [createArgs |-> [p \in Procs |-> IF p = "c1" THEN {<<GoodConfig, "std">>} ELSE {}],
     cloneArgs |-> [p \in Procs |->
        IF p = "c1" THEN {<<SourceConfigA, CloneConfig(SnapAvailable, FALSE)>>} ELSE {}],
     destroyConfigs |-> [p \in Procs |-> IF p = "c2" THEN {GoodConfig} ELSE {}],
     resizeArgs |-> [p \in Procs |->
        IF p = "c1" THEN {<<SourceConfigA, UInt64(Size150GiB)>>} ELSE {}],
     importArgs |-> [p \in Procs |-> IF p = "c1" THEN {<<ImportConfig, SourceToken>>} ELSE {}],
     snapshotArgs |-> [p \in Procs |->
        IF p = "c1"
        THEN {<<op, SourceConfigA, SnapAvailable>> : op \in SnapshotOps \ {"GetSnapshots"}}
             \cup {<<"GetSnapshots", SourceConfigA, NoSnapName>>}
        ELSE {}],
     accessArgs |-> [p \in Procs |->
        IF p = "c1"
        THEN {<<op, cfg>> : op \in {"Publish", "CreateFollowup"},
                            cfg \in {SourceConfigA, ReadOnlyCloneConfig}}
             \cup {<<"Get", SourceConfigA>>, <<"List", NoCfg>>}
        ELSE {}],
     nasType |-> NFS,
     kerberos |-> "",
     limitVolumeSize |-> SizeStr(Size200GiB)]

\* the backend holds the first source volume and its snapshot
LifecycleInit ==
    /\ host = LifecycleHost
    /\ vols = {SourceA}
    /\ snaps = {Snapshot(SourceA.id, SnapAvailable, StateAvailable)}
    /\ clock = 1
    /\ calls = 0
    /\ pc = [p \in Procs |-> "idle"]
    /\ volConfig = [p \in Procs |-> NoCfg]
    /\ frame = [p \in Procs |-> NoFrame]
    /\ ret = [p \in Procs |-> NoRet]
    /\ sdkCalls = [p \in Procs |-> <<>>]

LifecycleNext ==
    \/ \E p \in Procs : CreateCall(p)
    \/ \E p \in Procs : CreateRetry(p)
    \/ \E p \in Procs : CreateRefresh(p)
    \/ \E p \in Procs : CreateVolumeExists(p)
    \/ \E p \in Procs : CreatePlace(p)
    \/ \E p \in Procs : CreateTryCapacityPool(p)
    \/ \E p \in Procs : WaitForVolumeCreate(p)
    \/ \E p \in Procs : WaitCreateDeleting(p)
    \/ \E p \in Procs : WaitCreateCleanup(p)
    \/ \E p \in Procs : CloneCall(p)
    \/ \E p \in Procs : CloneRefresh(p)
    \/ \E p \in Procs : CloneSource(p)
    \/ \E p \in Procs : CloneVolumeExists(p)
    \/ \E p \in Procs : CloneGetSnapshot(p)
    \/ \E p \in Procs : CloneCreateVolume(p)
    \/ \E p \in Procs : DestroyCall(p)
    \/ \E p \in Procs : DestroyRefresh(p)
    \/ \E p \in Procs : DestroyVolumeExists(p)
    \/ \E p \in Procs : DestroyWaitRetry(p)
    \/ \E p \in Procs : DestroyDelete(p)
    \/ \E p \in Procs : DestroyWait(p)
    \/ \E p \in Procs : ResizeCall(p)
    \/ \E p \in Procs : ResizeRefresh(p)
    \/ \E p \in Procs : ResizeGetVolume(p)
    \/ \E p \in Procs : ResizeResizeVolume(p)
    \/ \E p \in Procs : ImportCall(p)
    \/ \E p \in Procs : ImportRefresh(p)
    \/ \E p \in Procs : ImportGetVolume(p)
    \/ \E p \in Procs : ImportEnsure(p)
    \/ \E p \in Procs : ImportModify(p)
    \/ \E p \in Procs : ImportWait(p)
    \/ \E p \in Procs : SnapshotCall(p)
    \/ \E p \in Procs : SnapshotRefresh(p)
    \/ \E p \in Procs : SnapshotParentVolume(p)
    \/ \E p \in Procs : SnapshotLookup(p)
    \/ \E p \in Procs : GetSnapshotsList(p)
    \/ \E p \in Procs : CreateSnapshotCreate(p)
    \/ \E p \in Procs : CreateSnapshotWait(p)
    \/ \E p \in Procs : RestoreSnapshotRestore(p)
    \/ \E p \in Procs : RestoreSnapshotWait(p)
    \/ \E p \in Procs : DeleteSnapshotDelete(p)
    \/ \E p \in Procs : DeleteSnapshotWait(p)
    \/ \E p \in Procs : AccessCall(p)
    \/ \E p \in Procs : AccessRefresh(p)
    \/ \E p \in Procs : PublishVolume(p)
    \/ \E p \in Procs : FollowupVolume(p)
    \/ \E p \in Procs : GetVolume(p)
    \/ \E p \in Procs : ListVolumes(p)
    \/ BackendCreating
    \/ BackendAvailable
    \/ BackendError
    \/ BackendDeleted
    \/ BackendSnapshotAvailable
    \/ BackendSnapshotError
    \/ BackendSnapshotDeleted
    \/ BackendReverted
    \/ BackendMoving

LifecycleSpec == LifecycleInit /\ [][LifecycleNext]_vars

(* ======================================================================= *)
(*                               Properties                                *)
(* ======================================================================= *)
CreateOps == {"Create", "CreateClone"}

\* the call in slot p has returned and was one of ops
Finished(p, ops) == pc[p] = "done" /\ frame[p].op \in ops

\* positions in the call log of slot p at which `name` was called
Issued(p, name) == {i \in DOMAIN sdkCalls[p] : sdkCalls[p][i].call = name}

IsCreateVolume(c) == c.call = "CreateVolume"
\* capacity pools of the CreateVolume calls of slot p, in the order issued
Attempts(p) ==
    LET cs == SelectSeq(sdkCalls[p], IsCreateVolume)
    IN  [i \in DOMAIN cs |-> cs[i].cPool]

\* capacity-pool candidates of the storage pool slot p creates in, as listed
Candidates(p) ==
    IF frame[p].storagePool \in DOMAIN pools THEN pools[frame[p].storagePool].cPools
    ELSE <<>>

\* the post-create wait of slot p ended with an error in one of states
WaitFailedIn(p, states) ==
    /\ frame[p].op \in CreateOps
    /\ frame[p].waitErr
    /\ frame[p].state \in states

\* C1: a Create whose wait for the volume it created ends with the volume
\* still Creating returns VolumeCreatingError, and a Create that finds the
\* volume of its creation token in Creating state returns VolumeCreatingError
\* too and issues no CreateVolume call.
C1_StillCreatingBothTimes ==
    \A p \in Procs :
        Finished(p, {"Create"}) =>
            /\ WaitFailedIn(p, {StateCreating}) => ret[p].kind = "VolumeCreatingError"
            /\ frame[p].extant = StateCreating =>
                    /\ ret[p].kind = "VolumeCreatingError"
                    /\ Issued(p, "CreateVolume") = {}

\* a retried Create, whose first call created the volume and returned
\* VolumeCreatingError, finds the volume still Creating
C1_Witness ==
    \E p \in Procs :
        /\ Finished(p, {"Create"})
        /\ frame[p].retry
        /\ frame[p].prevRet = "VolumeCreatingError"
        /\ volConfig[p].InternalID # NoID
        /\ frame[p].extant = StateCreating
        /\ ret[p].kind = "VolumeCreatingError"

\* C2: a Create that finds a volume with its creation token in any state but
\* Creating returns VolumeExistsError, not VolumeCreatingError, and issues no
\* CreateVolume call.
C2_StableDuplicate ==
    \A p \in Procs :
        (Finished(p, {"Create"}) /\ frame[p].extant \notin {"none", "absent", StateCreating}) =>
            /\ ret[p].kind = "VolumeExistsError"
            /\ Issued(p, "CreateVolume") = {}

C2_Witness ==
    \E p \in Procs :
        /\ Finished(p, {"Create"})
        /\ frame[p].extant = StateAvailable
        /\ ret[p].kind = "VolumeExistsError"

InvalidNames(p) ==
    \/ ~volumeNameRegex(frame[p].entry.Name)
    \/ ~volumeCreationTokenRegex(frame[p].entry.InternalName)

C5_CandidatesInOrder ==
    \A p \in Procs :
        frame[p].op = "Create" =>
            LET tried == Attempts(p)
                k == Len(tried)
            IN  /\ k <= Len(Candidates(p))
                /\ tried = SubSeq(Candidates(p), 1, k)
                /\ frame[p].volume # NoID =>
                    /\ k >= 1
                    /\ frame[p].volume.cp = Candidates(p)[k]
                    /\ frame[p].createErrors = SubSeq(Candidates(p), 1, k - 1)
                /\ frame[p].volume = NoID =>
                    frame[p].createErrors = tried

\* a Create whose first candidate failed and whose second accepted has returned
C5_Witness ==
    \E p \in Procs :
        /\ Finished(p, {"Create"})
        /\ Len(Candidates(p)) >= 2
        /\ frame[p].volume # NoID
        /\ frame[p].volume.cp = Candidates(p)[2]
        /\ Attempts(p) = SubSeq(Candidates(p), 1, 2)

\* C6: when CreateVolume failed on every capacity-pool candidate, Create
\* returns a non-nil combined error holding one entry per candidate, in the
\* order tried, and it has not set the descriptor's identifier.
C6_PlacementExhausted ==
    \A p \in Procs :
        (/\ Finished(p, {"Create"})
         /\ Candidates(p) # <<>>
         /\ Attempts(p) = Candidates(p)
         /\ frame[p].volume = NoID) =>
            /\ ret[p].kind = "createErrors"
            /\ ret[p] # Nil
            /\ ret[p].errs = Candidates(p)
            /\ volConfig[p].InternalID = frame[p].entry.InternalID

\* every one of at least two candidates failed, on a descriptor without ID
C6_Witness ==
    \E p \in Procs :
        /\ Finished(p, {"Create"})
        /\ Len(Candidates(p)) >= 2
        /\ Attempts(p) = Candidates(p)
        /\ frame[p].volume = NoID
        /\ Len(ret[p].errs) = Len(Candidates(p))
        /\ volConfig[p].InternalID = NoID

\* C7: from the moment CreateVolume has returned a volume, before the wait is
\* started and whatever the wait's outcome, the descriptor's InternalID is
\* the identifier of that volume.
C7_IdentifierSavedBeforeWait ==
    \A p \in Procs :
        (frame[p].op \in CreateOps
         /\ (frame[p].volume # NoID \/ pc[p] \in {"wait", "wait.deleting", "wait.cleanup"})) =>
            /\ volConfig[p].InternalID # NoID
            /\ volConfig[p].InternalID = frame[p].volume

\* the wait has timed out or failed and the identifier is on the descriptor
C7_Witness ==
    \E p \in Procs : \E q \in Procs \ {p} :
        /\ Finished(p, {"Create"}) /\ WaitFailedIn(p, {StateCreating})
        /\ Finished(q, {"CreateClone"}) /\ WaitFailedIn(q, {StateError})
        /\ volConfig[p].InternalID = frame[p].volume
        /\ volConfig[q].InternalID = frame[q].volume

\* C8: when the post-create wait ends with an error and the volume in
\* Accepted or Creating state, Create/CreateClone returns VolumeCreatingError.
C8_TimeoutIsStillCreating ==
    \A p \in Procs :
        (Finished(p, CreateOps) /\ WaitFailedIn(p, {StateAccepted, StateCreating})) =>
            ret[p].kind = "VolumeCreatingError"

C8_Witness ==
    \E p \in Procs :
        /\ Finished(p, CreateOps)
        /\ WaitFailedIn(p, {StateAccepted})
        /\ ret[p].kind = "VolumeCreatingError"

\* C9: when the post-create wait ends with the volume in Error state, the
\* call has issued DeleteVolume exactly once, after the wait, by the time it
\* returns; and it never issues DeleteVolume before the wait has ended so.
C9_FailedVolumeDeletedOnce ==
    \A p \in Procs :
        /\ (Finished(p, CreateOps) /\ WaitFailedIn(p, {StateError})) =>
                /\ Cardinality(Issued(p, "DeleteVolume")) = 1
                /\ \A i \in Issued(p, "DeleteVolume") :
                        /\ i = Len(sdkCalls[p])
                        /\ sdkCalls[p][i - 1].call = "WaitForVolumeState"
        /\ (frame[p].op \in CreateOps /\ Issued(p, "DeleteVolume") # {}) =>
                WaitFailedIn(p, {StateError})

C9_Witness ==
    \E p \in Procs :
        /\ Finished(p, CreateOps)
        /\ WaitFailedIn(p, {StateError})
        /\ Cardinality(Issued(p, "DeleteVolume")) = 1
        /\ VolumesByID(frame[p].volume) = {}

\* C10: when the post-create wait ends with the volume in Error state,
\* Create/CreateClone returns the wait's error, whether or not the cleanup
\* delete succeeded.
C10_OriginalErrorReturned ==
    \A p \in Procs :
        (Finished(p, CreateOps) /\ WaitFailedIn(p, {StateError})) =>
            ret[p].kind = "waitError"

\* C11: a post-create wait that ends with an error and the volume in
\* Accepted or Creating state is the last SDK call of the call: no
\* DeleteVolume is issued and the identifier of the volume stays on the
\* descriptor; and whenever the retried Create is at its existence check, the
\* lookup finds the volume by that identifier, that is, the object the earlier
\* call left behind.
C11_TimeoutLeavesVolume ==
    \A p \in Procs :
        /\ (Finished(p, CreateOps) /\ WaitFailedIn(p, {StateAccepted, StateCreating})) =>
                /\ Issued(p, "DeleteVolume") = {}
                /\ sdkCalls[p][Len(sdkCalls[p])].call = "WaitForVolumeState"
                /\ volConfig[p].InternalID = frame[p].volume
        /\ (pc[p] = "Create.exists" /\ frame[p].retry
                /\ frame[p].prevRet = "VolumeCreatingError"
                /\ frame[p].entry.InternalID # NoID) =>
                /\ volConfig[p].InternalID = frame[p].entry.InternalID
                /\ VolumeLookup(volConfig[p]) = VolumesByID(frame[p].entry.InternalID)

\* the retry of a Create whose wait timed out finds the volume that call left,
\* still Accepted, and creates nothing
C11_Witness ==
    \E p \in Procs :
        /\ Finished(p, {"Create"})
        /\ frame[p].retry
        /\ frame[p].prevRet = "VolumeCreatingError"
        /\ frame[p].entry.InternalID # NoID
        /\ frame[p].extant = StateAccepted
        /\ VolumesByID(frame[p].entry.InternalID) # {}
        /\ Issued(p, "CreateVolume") = {}

\* the Resize in slot p has returned after SDK.Volume gave it the volume
Resized(p) == Finished(p, {"Resize"}) /\ frame[p].found # NoVolume

\* the backend quota of the volume slot p resizes is the one the call found
QuotaUnchanged(p) ==
    \A v \in VolumesByID(frame[p].volume) : v.QuotaInBytes = frame[p].found.QuotaInBytes

\* C12: a Resize whose requested size is smaller than the quota of the volume
\* returns an error, has issued no ResizeVolume call and leaves the backend
\* quota as it was; a Resize that could not get the volume returns an error
\* and issues no ResizeVolume either.
C12_ShrinkRejected ==
    \A p \in Procs :
        /\ (Resized(p) /\ ~frame[p].sizeBytes.wrap
                /\ frame[p].sizeBytes.n < frame[p].found.QuotaInBytes) =>
                /\ ret[p].kind # "nil"
                /\ Issued(p, "ResizeVolume") = {}
                /\ QuotaUnchanged(p)
        /\ (Finished(p, {"Resize"}) /\ frame[p].found = NoVolume) =>
                /\ ret[p].kind # "nil"
                /\ Issued(p, "ResizeVolume") = {}

\* a request for 50 GiB on an Available volume of 100 GiB is rejected as a
\* shrink
C12_Witness ==
    \E p \in Procs :
        /\ Resized(p)
        /\ frame[p].found.state = StateAvailable
        /\ frame[p].found.QuotaInBytes = MinimumANFVolumeSizeBytes
        /\ frame[p].sizeBytes = UInt64(Size50GiB)
        /\ ret[p].kind = "shrink"
        /\ QuotaUnchanged(p)

\* C13 as stated: a Resize whose requested size equals the quota of the
\* volume returns success and issues no ResizeVolume call, whatever the state
\* of the volume.
C13_EqualSizeSucceeds ==
    \A p \in Procs :
        (Resized(p) /\ Int64Equal(frame[p].sizeBytes, frame[p].found.QuotaInBytes)) =>
            /\ ret[p].kind = "nil"
            /\ Issued(p, "ResizeVolume") = {}

\* C13: a Resize whose requested size equals the quota of a volume that is
\* Available returns success, having issued only the cache refresh and the
\* volume lookup, and writes that size to the descriptor; for a volume in any
\* other state it returns an error.  In neither case is ResizeVolume issued.
C13_EqualSizeOfAvailableVolume ==
    \A p \in Procs :
        (Resized(p) /\ Int64Equal(frame[p].sizeBytes, frame[p].found.QuotaInBytes)) =>
            /\ Issued(p, "ResizeVolume") = {}
            /\ frame[p].found.state = StateAvailable =>
                    /\ ret[p].kind = "nil"
                    /\ sdkCalls[p] = <<Call("RefreshAzureResources"), Call("Volume")>>
                    /\ volConfig[p].Size = SizeStr(frame[p].found.QuotaInBytes)
                    /\ QuotaUnchanged(p)
            /\ frame[p].found.state # StateAvailable => ret[p].kind = "notAvailable"

C13_Witness ==
    \E p \in Procs :
        /\ Resized(p)
        /\ frame[p].found.state = StateAvailable
        /\ frame[p].sizeBytes = UInt64(MinimumANFVolumeSizeBytes)
        /\ frame[p].found.QuotaInBytes = MinimumANFVolumeSizeBytes
        /\ ret[p].kind = "nil"

\* the call in slot p has issued ResizeVolume only for an Available volume
\* and a size within the configured limit
ResizeOnlyIfAllowed(p) ==
    (frame[p].op = "Resize" /\ Issued(p, "ResizeVolume") # {}) =>
        /\ frame[p].found.state = StateAvailable
        /\ ~CheckVolumeSizeLimits(frame[p].sizeBytes)

\* C14 as stated: ResizeVolume is issued only for an Available volume and a
\* size within the configured limit, and a Resize of a volume that is not
\* Available, or to a size above the limit, returns an error and leaves the
\* backend quota as it was.
C14_ResizeNeedsAvailableAndLimit ==
    \A p \in Procs :
        /\ ResizeOnlyIfAllowed(p)
        /\ (Resized(p) /\ (frame[p].found.state # StateAvailable
                                \/ CheckVolumeSizeLimits(frame[p].sizeBytes))) =>
                /\ ret[p].kind # "nil"
                /\ QuotaUnchanged(p)

\* C14: ResizeVolume is issued only for an Available volume and a size within
\* the configured limit.  A Resize of a volume that is not Available returns
\* an error; a Resize of an Available volume to a size above the limit returns
\* an error unless that size is the volume's quota already, in which case it
\* returns success; in all these cases the backend quota is as it was.
C14_ResizeNeedsAvailableAndLimitUnlessEqual ==
    \A p \in Procs :
        /\ ResizeOnlyIfAllowed(p)
        /\ (Resized(p) /\ (frame[p].found.state # StateAvailable
                                \/ CheckVolumeSizeLimits(frame[p].sizeBytes))) =>
                /\ QuotaUnchanged(p)
                /\ Issued(p, "ResizeVolume") = {}
                /\ ret[p].kind = "nil" <=>
                        /\ frame[p].found.state = StateAvailable
                        /\ Int64Equal(frame[p].sizeBytes, frame[p].found.QuotaInBytes)

\* a request above the limit on an Available volume of 100 GiB is rejected
C14_Witness ==
    \E p \in Procs :
        /\ Resized(p)
        /\ frame[p].found.state = StateAvailable
        /\ frame[p].found.QuotaInBytes = MinimumANFVolumeSizeBytes
        /\ frame[p].sizeBytes = UInt64(Size200GiB + 1)
        /\ ret[p].kind = "sizeLimitExceeded"
        /\ QuotaUnchanged(p)

\* the SDK calls every Destroy starts with
DestroyPrefix == <<Call("RefreshAzureResources"), Call("VolumeExists")>>

\* C15: a Destroy whose existence check finds no volume returns success and
\* has issued neither DeleteVolume nor a wait for a volume state.
C15_DestroyMissingSucceeds ==
    \A p \in Procs :
        (Finished(p, {"Destroy"}) /\ frame[p].extant = "absent") =>
            /\ ret[p].kind = "nil"
            /\ sdkCalls[p] = DestroyPrefix
            /\ Issued(p, "DeleteVolume") = {}
            /\ Issued(p, "WaitForVolumeState") = {}

\* a Destroy of a descriptor whose volume is not in the backend
C15_Witness ==
    \E p \in Procs :
        /\ Finished(p, {"Destroy"})
        /\ frame[p].extant = "absent"
        /\ VolumeLookup(volConfig[p]) = {}
        /\ ret[p].kind = "nil"

\* C16: a Destroy that repeats the Destroy of the same descriptor, and finds
\* the volume absent or Deleting, returns success whatever the first call
\* returned.
C16_SecondDestroyNeverErrors ==
    \A p \in Procs :
        (Finished(p, {"Destroy"}) /\ frame[p].retry
            /\ frame[p].extant \in {"absent", StateDeleting}) =>
            ret[p].kind = "nil"

\* C17: Destroy issues DeleteVolume only for a volume that exists and is not
\* Deleting.  For a volume that is Deleting its only call after the existence
\* check is a wait with the volume-create timeout; for a volume in any other
\* state it issues DeleteVolume and then, unless the delete failed, a wait with
\* the default timeout.
C17_DeleteUnlessDeleting ==
    \A p \in Procs :
        frame[p].op = "Destroy" =>
            /\ Issued(p, "DeleteVolume") # {} =>
                    frame[p].extant \notin {"none", "absent", StateDeleting}
            /\ (pc[p] = "done" /\ frame[p].extant = StateDeleting) =>
                    sdkCalls[p] = DestroyPrefix \o
                        <<CallWith("WaitForVolumeState", 0, "volumeCreateTimeout")>>
            /\ (pc[p] = "done" /\ frame[p].extant \notin {"none", "absent", StateDeleting}) =>
                    IF ret[p].kind = "deleteError"
                    THEN sdkCalls[p] = DestroyPrefix \o <<Call("DeleteVolume")>>
                    ELSE sdkCalls[p] = DestroyPrefix \o
                            <<Call("DeleteVolume"),
                              CallWith("WaitForVolumeState", 0, "defaultTimeout")>>

\* a repeated Destroy finds the volume its first call deleted still Deleting
\* and only waits
C17_Witness ==
    \E p \in Procs :
        /\ Finished(p, {"Destroy"})
        /\ frame[p].retry
        /\ frame[p].extant = StateDeleting
        /\ Issued(p, "DeleteVolume") = {}
        /\ Issued(p, "WaitForVolumeState") # {}

\* the Create in slot p has built its create request
RequestBuilt(p) == frame[p].op = "Create" /\ frame[p].request # NoRequest

\* the kerberos mode of the pool slot p creates in
PoolKerberos(p) == pools[frame[p].storagePool].Kerberos

\* C18: the create request Create builds on a pool with kerberos mode X has,
\* in its export rule, the kerberos read-write flag of X set and the other two
\* unset, unix read-write and unix read-only unset, NFSv3 access off and
\* NFSv4.1 access on, and NFSv4.1 as its only protocol type, whatever NFS
\* version the mount options name; on a pool without kerberos no kerberos
\* flag is set and unix read-write is set.  The volume the backend creates
\* carries that export rule.
C18_KerberosExportRule ==
    \A p \in Procs :
        RequestBuilt(p) =>
            LET rule == frame[p].request.ExportRule
                k == PoolKerberos(p)
            IN  /\ k \in KerberosModes \cup {""}
                /\ rule.Kerberos5ReadWrite = (k = "sec=krb5")
                /\ rule.Kerberos5IReadWrite = (k = "sec=krb5i")
                /\ rule.Kerberos5PReadWrite = (k = "sec=krb5p")
                /\ ~rule.UnixReadOnly
                /\ rule.UnixReadWrite = (k = "")
                /\ frame[p].request.KerberosEnabled = (k # "")
                /\ k # "" =>
                        /\ ~rule.Nfsv3
                        /\ rule.Nfsv41
                        /\ frame[p].request.ProtocolTypes = <<"NFSv4.1">>
                /\ \A v \in VolumesByID(frame[p].volume) : v.ExportRule = rule

\* a volume created on the krb5i pool with mount options that name NFSv3 (the
\* default of the configuration)
C18_Witness ==
    \E p \in Procs :
        /\ RequestBuilt(p)
        /\ PoolKerberos(p) = "sec=krb5i"
        /\ NFSVersion(IF frame[p].entry.MountOptions # "" THEN frame[p].entry.MountOptions
                      ELSE Config.NfsMountOptions) = "3"
        /\ \E v \in VolumesByID(frame[p].volume) :
                /\ v.ExportRule.Kerberos5IReadWrite
                /\ v.ExportRule.Nfsv41

\* C19: an Initialize during which the kerberos entitlement is missing does
\* not fail in validate: with the SDK client set up and the pools valid it
\* returns success.  A Create on a kerberos pool for which the entitlement is
\* missing returns the requires-ACP error, and its only SDK call is the cache
\* refresh: no CreateVolume is issued.
C19_EntitlementWarnsThenFails ==
    \A p \in Procs :
        /\ (Finished(p, {"Initialize"}) /\ frame[p].acp = "missing") =>
                ret[p].kind = "nil"
        /\ (frame[p].op = "Create" /\ frame[p].acp = "missing") =>
                /\ pc[p] = "done"
                /\ ret[p].kind = "requiresACP"
                /\ sdkCalls[p] = <<Call("RefreshAzureResources")>>
                /\ Issued(p, "CreateVolume") = {}

\* the entitlement is missing both when the driver is initialized and when a
\* volume is created on a kerberos pool
C19_Witness ==
    \E p \in Procs, q \in Procs :
        /\ Finished(p, {"Initialize"})
        /\ frame[p].acp = "missing"
        /\ ret[p].kind = "nil"
        /\ Finished(q, {"Create"})
        /\ frame[q].acp = "missing"
        /\ PoolKerberos(q) = "sec=krb5"
        /\ ret[q].kind = "requiresACP"

\* the size a Create in slot p asks for, once zero is replaced by the default
\* of the pool
RequestedSize(p) ==
    IF frame[p].entry.Size.n = 0 THEN pools[frame[p].storagePool].Size.n
    ELSE frame[p].entry.Size.n

\* the Create in slot p has got to its size determination with a size that
\* parses
SizeDetermined(p) ==
    /\ frame[p].op = "Create"
    /\ frame[p].extant = "absent"
    /\ frame[p].entry.Size.ok

\* C20: with a requested size of zero replaced by the pool default, Create
\* rejects a size below MinimumVolumeSizeBytes without a CreateVolume call and
\* rejects no size for being too small otherwise: a size from
\* MinimumVolumeSizeBytes up to MinimumANFVolumeSizeBytes becomes exactly
\* MinimumANFVolumeSizeBytes (107374182400 bytes), a larger one is kept, in
\* the create request, on the descriptor and on the volume created.
C20_EffectiveSize ==
    \A p \in Procs :
        SizeDetermined(p) =>
            LET size == RequestedSize(p)
                final == IF size < MinimumANFVolumeSizeBytes
                         THEN MinimumANFVolumeSizeBytes ELSE size
            IN  /\ size < MinimumVolumeSizeBytes =>
                        /\ pc[p] = "done"
                        /\ ret[p].kind = "sizeTooSmall"
                        /\ Issued(p, "CreateVolume") = {}
                /\ (pc[p] = "done" /\ ret[p].kind = "sizeTooSmall") =>
                        size < MinimumVolumeSizeBytes
                /\ frame[p].request # NoRequest =>
                        /\ size >= MinimumVolumeSizeBytes
                        /\ frame[p].request.QuotaInBytes = final
                        /\ volConfig[p].Size = SizeStr(final)
                        /\ \A v \in VolumesByID(frame[p].volume) : v.QuotaInBytes = final

\* a request for 50 GiB has created a volume of exactly 100 GiB
C20_Witness ==
    \E p \in Procs :
        /\ SizeDetermined(p)
        /\ frame[p].entry.Size = SizeStr(Size50GiB)
        /\ volConfig[p].Size = SizeStr(MinimumANFVolumeSizeBytes)
        /\ \E v \in VolumesByID(frame[p].volume) :
                v.QuotaInBytes = MinimumANFVolumeSizeBytes

\* C21: a Create whose size, with zero replaced by the pool default and a size
\* below MinimumANFVolumeSizeBytes raised to it, exceeds the configured limit
\* returns the size limit error without a CreateVolume call, and Create
\* returns that error for no other size.
C21_LimitOnEffectiveSize ==
    \A p \in Procs :
        (SizeDetermined(p) /\ RequestedSize(p) >= MinimumVolumeSizeBytes) =>
            LET size == RequestedSize(p)
                final == IF size < MinimumANFVolumeSizeBytes
                         THEN MinimumANFVolumeSizeBytes ELSE size
                exceeds == Config.LimitVolumeSize.ok /\ final > Config.LimitVolumeSize.n
            IN  /\ exceeds =>
                        /\ pc[p] = "done"
                        /\ ret[p].kind = "sizeLimitExceeded"
                        /\ Issued(p, "CreateVolume") = {}
                        /\ frame[p].request = NoRequest
                /\ (pc[p] = "done" /\ ret[p].kind = "sizeLimitExceeded") => exceeds

\* a request for 50 GiB under a limit of 75 GiB was refused for its size
C21_Witness ==
    \E p \in Procs :
        /\ SizeDetermined(p)
        /\ frame[p].entry.Size = SizeStr(Size50GiB)
        /\ Config.LimitVolumeSize = SizeStr(Size75GiB)
        /\ pc[p] = "done"
        /\ ret[p].kind = "sizeLimitExceeded"
        /\ Issued(p, "CreateVolume") = {}

\* the call in slot p is a CreateClone that names its source snapshot
CloneNamed(p) ==
    /\ frame[p].op = "CreateClone"
    /\ frame[p].entry.CloneSourceSnapshotInternal # NoSnapName

\* the snapshots of the source volume of slot p with the given name that are
\* Available
AvailableSnapshots(p, name) ==
    {sn \in SnapshotsForVolume(frame[p].sourceVolume.id, name) : sn.state = StateAvailable}

\* C22: a CreateClone that names its source snapshot calls CreateSnapshot
\* never, and calls CreateVolume only if the named snapshot exists on the
\* source volume in Available state, with that snapshot as the source; if the
\* call has looked the snapshot up and it is missing or not Available, the
\* call returns an error without a CreateVolume call and leaves the identifier
\* of the descriptor unset.
C22_NamedSnapshotMustBeAvailable ==
    \A p \in Procs :
        CloneNamed(p) =>
            LET name == frame[p].entry.CloneSourceSnapshotInternal
            IN  /\ Issued(p, "CreateSnapshot") = {}
                /\ Issued(p, "CreateVolume") # {} =>
                        /\ AvailableSnapshots(p, name) # {}
                        /\ frame[p].sourceSnapshot = name
                        /\ frame[p].volume # NoID => frame[p].request.SnapshotID = name
                /\ (Finished(p, {"CreateClone"}) /\ Issued(p, "SnapshotForVolume") # {}
                        /\ AvailableSnapshots(p, name) = {}) =>
                        /\ ret[p].kind \in {"snapshotNotFound", "snapshotNotAvailable"}
                        /\ Issued(p, "CreateVolume") = {}
                        /\ volConfig[p].InternalID = NoID

\* a clone from a snapshot in Error state was refused, and no volume and no
\* snapshot was asked for
C22_Witness ==
    \E p \in Procs :
        /\ CloneNamed(p)
        /\ frame[p].entry.CloneSourceSnapshotInternal = SnapFailed
        /\ Finished(p, {"CreateClone"})
        /\ ret[p].kind = "snapshotNotAvailable"
        /\ Issued(p, "CreateVolume") = {}
        /\ Issued(p, "CreateSnapshot") = {}

\* the call in slot p is a CreateClone that names no source snapshot
CloneUnnamed(p) ==
    /\ frame[p].op = "CreateClone"
    /\ frame[p].entry.CloneSourceSnapshotInternal = NoSnapName

\* the SDK calls of a clone up to its CreateVolume call
ClonePrefix ==
    <<"RefreshAzureResources", "Volume", "VolumeExistsByID", "CreateSnapshot",
      "WaitForSnapshotState", "SnapshotForVolume", "CreateVolume">>

\* C23: a CreateClone that names no source snapshot calls CreateSnapshot at
\* most once; when it calls CreateVolume it has before that, in this order,
\* created one snapshot named from the time, waited for it and fetched it
\* again, the snapshot is Available on the source volume, and the volume is
\* created from that snapshot; a call that returns the error of the snapshot
\* create, wait or re-fetch has called CreateVolume never.
C23_SnapshotThenVolume ==
    \A p \in Procs :
        CloneUnnamed(p) =>
            /\ Cardinality(Issued(p, "CreateSnapshot")) <= 1
            /\ Issued(p, "CreateVolume") # {} =>
                    /\ Len(sdkCalls[p]) >= Len(ClonePrefix)
                    /\ \A i \in DOMAIN ClonePrefix : sdkCalls[p][i].call = ClonePrefix[i]
                    /\ Issued(p, "CreateVolume") = {Len(ClonePrefix)}
                    /\ frame[p].snapName.kind = "time"
                    /\ frame[p].sourceSnapshot = frame[p].snapName
                    /\ AvailableSnapshots(p, frame[p].snapName) # {}
                    /\ frame[p].volume # NoID =>
                            frame[p].request.SnapshotID = frame[p].snapName
            /\ (Finished(p, {"CreateClone"})
                    /\ ret[p].kind \in {"createSnapshotError", "snapshotWaitError",
                                        "snapshotRefetchError"}) =>
                    Issued(p, "CreateVolume") = {}

\* a clone without a named snapshot has created its volume from the one
\* snapshot it created
C23_Witness ==
    \E p \in Procs :
        /\ CloneUnnamed(p)
        /\ Finished(p, {"CreateClone"})
        /\ ret[p].kind = "nil"
        /\ Cardinality(Issued(p, "CreateSnapshot")) = 1
        /\ \E v \in VolumesByID(frame[p].volume) :
                /\ v.SnapshotID = frame[p].snapName
                /\ v.SnapshotID.kind = "time"

\* C24: a read-only CreateClone creates no backend object: it calls neither
\* CreateVolume nor CreateSnapshot and leaves the identifier of the
\* descriptor unset; once it knows its source snapshot it succeeds if the
\* source volume has snapshot-directory access and fails if it has not.
C24_ReadOnlyCloneCreatesNothing ==
    \A p \in Procs :
        (frame[p].op = "CreateClone" /\ frame[p].entry.ReadOnlyClone) =>
            /\ Issued(p, "CreateVolume") = {}
            /\ Issued(p, "CreateSnapshot") = {}
            /\ volConfig[p].InternalID = NoID
            /\ (Finished(p, {"CreateClone"}) /\ frame[p].sourceSnapshot # NoSnapName) =>
                    (ret[p].kind = "nil" <=> frame[p].sourceVolume.SnapshotDirectory)

\* C25 as stated: a CreateClone whose existence check runs while a volume
\* with the clone's creation token exists returns the error of an existing
\* volume, "still creating" if that volume is Creating.
C25_CloneFoundByCreationToken ==
    [][\A p \in Procs :
        (pc[p] = "Clone.exists" /\ pc'[p] # "Clone.exists"
            /\ ret'[p].kind # "existsCheckError"
            /\ VolumesByCreationToken(volConfig[p].InternalName) # {}) =>
                /\ pc'[p] = "done"
                /\ ret'[p].kind \in {"VolumeCreatingError", "VolumeExistsError"}]_vars

\* C25: the existence check of CreateClone looks up the identifier computed
\* from the capacity pool of the source volume and the name of the clone, not
\* its creation token: if a volume with that identifier exists the call
\* returns "still creating" (the volume is Creating) or "already exists" and
\* has called neither CreateSnapshot nor CreateVolume; if none exists the call
\* goes on.
C25_CloneFoundByIdentifier ==
    [][\A p \in Procs :
        (pc[p] = "Clone.exists" /\ pc'[p] # "Clone.exists"
            /\ ret'[p].kind # "existsCheckError") =>
            LET found == VolumesByID(CreateVolumeID(frame[p].sourceVolume.CapacityPool,
                                                    volConfig[p].Name))
            IN  IF found # {}
                THEN /\ pc'[p] = "done"
                     /\ \E v \in found :
                            ret'[p].kind = IF v.state = StateCreating
                                           THEN "VolumeCreatingError"
                                           ELSE "VolumeExistsError"
                     /\ \A i \in DOMAIN sdkCalls'[p] :
                            sdkCalls'[p][i].call \notin {"CreateSnapshot", "CreateVolume"}
                ELSE pc'[p] # "done"]_vars

\* a second CreateClone of the same descriptor has found the clone of the
\* first still Creating and has returned "still creating" without a snapshot
\* or a volume of its own
C25_Witness ==
    \E p \in Procs :
        /\ Finished(p, {"CreateClone"})
        /\ frame[p].extant = StateCreating
        /\ ret[p].kind = "VolumeCreatingError"
        /\ frame[p].cloneID = CreateVolumeID(1, CloneName)
        /\ VolumesByID(frame[p].cloneID) # {}
        /\ Issued(p, "CreateSnapshot") = {}
        /\ Issued(p, "CreateVolume") = {}

\* the Import in slot p has found its volume
ImportFound(p) == frame[p].op = "Import" /\ frame[p].found # NoVolume

\* C26: an Import that finds a volume with more than one protocol type
\* returns the dual-protocol error at once: it has called only the cache
\* refresh and the lookup by creation token, never ModifyVolume, and the
\* descriptor is as the host passed it, internal name and identifier
\* included.
C26_DualProtocolRejected ==
    \A p \in Procs :
        (ImportFound(p) /\ Len(frame[p].found.ProtocolTypes) > 1) =>
            /\ pc[p] = "done"
            /\ ret[p].kind = "dualProtocol"
            /\ [i \in DOMAIN sdkCalls[p] |-> sdkCalls[p][i].call]
                    = <<"RefreshAzureResources", "VolumeByCreationToken">>
            /\ Issued(p, "ModifyVolume") = {}
            /\ volConfig[p] = frame[p].entry
            /\ volConfig[p].InternalName # frame[p].originalName
            /\ volConfig[p].InternalID = NoID

\* a managed Import of the volume with NFSv3 and CIFS was refused
C26_Witness ==
    \E p \in Procs :
        /\ ImportFound(p)
        /\ frame[p].originalName = DualToken
        /\ frame[p].found.ProtocolTypes = <<"NFSv3", "CIFS">>
        /\ ~frame[p].entry.ImportNotManaged
        /\ Finished(p, {"Import"})
        /\ ret[p].kind = "dualProtocol"
        /\ Issued(p, "ModifyVolume") = {}

\* C27: an unmanaged Import calls neither ModifyVolume nor
\* WaitForVolumeState; a managed Import that returns success has called
\* ModifyVolume and then WaitForVolumeState, as its last two SDK calls, and
\* the wait ended without error with the volume Available.
C27_ManagedModifiesUnmanagedDoesNot ==
    \A p \in Procs :
        frame[p].op = "Import" =>
            IF frame[p].entry.ImportNotManaged
            THEN /\ Issued(p, "ModifyVolume") = {}
                 /\ Issued(p, "WaitForVolumeState") = {}
            ELSE (pc[p] = "done" /\ ret[p].kind = "nil") =>
                    /\ [i \in DOMAIN sdkCalls[p] |-> sdkCalls[p][i].call]
                            = <<"RefreshAzureResources", "VolumeByCreationToken",
                                "EnsureVolumeInValidCapacityPool", "ModifyVolume",
                                "WaitForVolumeState">>
                    /\ frame[p].state = StateAvailable
                    /\ ~frame[p].waitErr

\* one caller has imported a volume unmanaged without a ModifyVolume call,
\* the other has imported one managed, with ModifyVolume and a wait that saw
\* it Available
C27_Witness ==
    \E p, q \in Procs :
        /\ Finished(p, {"Import"}) /\ Finished(q, {"Import"})
        /\ frame[p].entry.ImportNotManaged
        /\ ret[p].kind = "nil"
        /\ Issued(p, "ModifyVolume") = {}
        /\ ~frame[q].entry.ImportNotManaged
        /\ ret[q].kind = "nil"
        /\ Issued(q, "ModifyVolume") # {}
        /\ frame[q].state = StateAvailable

\* the protocol of the volume does not match the NAS type of the backend, or
\* exactly one of backend and volume has kerberos
ImportMismatch(volume) ==
    \/ Config.NASType = SMB /\ volume.ProtocolTypes[1] # "CIFS"
    \/ Config.NASType = NFS /\ volume.ProtocolTypes[1] \notin {"NFSv3", "NFSv4.1"}
    \/ (Config.Kerberos # "") # volume.KerberosEnabled

\* C28: an Import that has found a volume whose protocol does not match the
\* NAS type of the backend, or whose kerberos mode does not match the
\* backend's, returns an error and has not called ModifyVolume.
C28_MismatchIsHardFailure ==
    \A p \in Procs :
        (ImportFound(p) /\ pc[p] = "done" /\ ImportMismatch(frame[p].found)) =>
            /\ ret[p].kind # "nil"
            /\ Issued(p, "ModifyVolume") = {}

\* C29: an Import that returns success leaves on the descriptor the creation
\* token of the volume as internal name and the identifier of the volume;
\* an Import goes past the capacity pool check (to success or to
\* ModifyVolume) only with a volume in a capacity pool of the backend, and
\* returns the error of the check otherwise.
C29_ImportedNames ==
    \A p \in Procs :
        frame[p].op = "Import" =>
            /\ (pc[p] = "done" /\ ret[p].kind = "nil") =>
                    /\ frame[p].found.token = frame[p].originalName
                    /\ volConfig[p].InternalName = frame[p].found.token
                    /\ volConfig[p].InternalID = frame[p].found.id
                    /\ frame[p].found.id # NoID
            /\ ((pc[p] = "done" /\ ret[p].kind = "nil") \/ Issued(p, "ModifyVolume") # {}) =>
                    frame[p].found.CapacityPool \in ConfiguredCapacityPools
            /\ (ImportFound(p) /\ Issued(p, "EnsureVolumeInValidCapacityPool") # {}
                    /\ frame[p].found.CapacityPool \notin ConfiguredCapacityPools) =>
                    /\ pc[p] = "done"
                    /\ ret[p].kind = "invalidCapacityPool"
                    /\ volConfig[p] = frame[p].entry

\* a managed Import has replaced the internal name the descriptor came with
\* by the creation token of the volume, and has saved its identifier
C29_Witness ==
    \E p \in Procs :
        /\ Finished(p, {"Import"})
        /\ ret[p].kind = "nil"
        /\ ~frame[p].entry.ImportNotManaged
        /\ frame[p].entry.InternalName = Token80
        /\ volConfig[p].InternalName = SourceToken
        /\ volConfig[p].InternalID = SourceA.id

\* C30: a snapshot operation that finds its parent volume missing returns no
\* snapshot and no error if it is GetSnapshot, GetSnapshots or DeleteSnapshot,
\* and returns an error, without a CreateSnapshot or RestoreSnapshot call on
\* the backend, if it is CreateSnapshot or RestoreSnapshot.
C30_MissingParentVolume ==
    \A p \in Procs :
        (Finished(p, SnapshotOps) /\ frame[p].extant = "absent") =>
            IF frame[p].op \in {"GetSnapshot", "GetSnapshots", "DeleteSnapshot"}
            THEN /\ ret[p].kind = "nil"
                 /\ frame[p].snapshots = {}
                 /\ Issued(p, "DeleteSnapshot") = {}
            ELSE /\ ret[p].kind # "nil"
                 /\ Issued(p, "CreateSnapshot") = {}
                 /\ Issued(p, "RestoreSnapshot") = {}

\* C31: RestoreSnapshot calls the restore on the backend only with a snapshot
\* it has found in Available state and returns an error for a snapshot in any
\* other state; after the restore call it returns success only if its wait
\* ended without error, with the volume Available.
C31_RestoreOnlyAvailableSnapshot ==
    \A p \in Procs :
        frame[p].op = "RestoreSnapshot" =>
            /\ Issued(p, "RestoreSnapshot") # {} => frame[p].state = StateAvailable
            /\ (pc[p] = "done" /\ frame[p].sourceSnapshot # NoSnapName
                    /\ frame[p].state # StateAvailable) => ret[p].kind # "nil"
            /\ (pc[p] = "done" /\ ret[p].kind = "nil") =>
                    /\ Issued(p, "WaitForVolumeState") # {}
                    /\ ~frame[p].waitErr

\* C36: a retried Create, whose earlier call returned VolumeCreatingError
\* after its wait timed out with the volume Accepted or Creating, and which
\* finds the volume in that same state, returns VolumeCreatingError again.
C36_RetryStillCreating ==
    \A p \in Procs :
        (/\ Finished(p, {"Create"})
         /\ frame[p].retry
         /\ frame[p].prevRet = "VolumeCreatingError"
         /\ frame[p].prevState \in {StateAccepted, StateCreating}
         /\ frame[p].extant = frame[p].prevState) =>
            ret[p].kind = "VolumeCreatingError"

\* C37: when the post-create wait ends with an error and the volume Deleting,
\* the driver waits for the volume to be Deleted and Create/CreateClone
\* returns an error.
C37_DeletingIsAnError ==
    \A p \in Procs :
        (Finished(p, CreateOps) /\ WaitFailedIn(p, {StateDeleting})) =>
            /\ \E i \in Issued(p, "WaitForVolumeState") :
                    sdkCalls[p][i].arg = "defaultTimeout"
            /\ ret[p].kind # "nil"

\* C38: a read-only CreateClone that has returned the error of a source volume
\* without snapshot-directory access has issued no backend call that creates
\* or deletes an object, whether or not its descriptor names a snapshot.
C38_SnapshotDirFailureMutatesNothing ==
    \A p \in Procs :
        (/\ Finished(p, {"CreateClone"})
         /\ frame[p].entry.ReadOnlyClone
         /\ ret[p].kind = "snapshotDirDisabled") =>
            \A i \in DOMAIN sdkCalls[p] :
                sdkCalls[p][i].call \notin
                    {"CreateSnapshot", "CreateVolume", "DeleteVolume", "DeleteSnapshot"}

\* C40: in Create and CreateClone at most one CreateVolume call succeeds; as
\* long as none has succeeded the descriptor's InternalID is the one the call
\* was entered with, and once one has succeeded it is the identifier of the
\* volume that call returned, the volume of the last capacity pool tried.
C40_IdentifierOnlyFromCreate ==
    \A p \in Procs :
        frame[p].op \in CreateOps =>
            LET tried == Attempts(p)
                failed == IF frame[p].op = "Create" THEN Len(frame[p].createErrors)
                          ELSE IF frame[p].volume = NoID /\ pc[p] = "done" THEN Len(tried)
                          ELSE 0
            IN  IF frame[p].volume = NoID
                THEN /\ volConfig[p].InternalID = frame[p].entry.InternalID
                     /\ Len(tried) = failed
                ELSE /\ Len(tried) = failed + 1
                     /\ volConfig[p].InternalID = frame[p].volume
                     /\ volConfig[p].InternalID =
                            CreateVolumeID(tried[Len(tried)], frame[p].request.Name)

\* a Create whose first CreateVolume failed and whose second succeeded
C40_Witness ==
    \E p \in Procs :
        /\ Finished(p, {"Create"})
        /\ Len(frame[p].createErrors) = 1
        /\ Len(Attempts(p)) = 2
        /\ frame[p].volume # NoID
        /\ volConfig[p].InternalID = frame[p].volume

\* C35: a Create that has looked for a subnet in a storage pool that has none,
\* or for capacity pools where none is of the storage pool and of the service
\* level of the descriptor, has returned the error for it and issues no
\* CreateVolume call.
C35_NoPlacementNoCreate ==
    \A p \in Procs :
        (frame[p].op = "Create" /\ Issued(p, "RandomSubnetForStoragePool") # {}) =>
            LET pool == pools[frame[p].storagePool]
                noCPool == \/ Len(pool.cPools) = 0
                           \/ volConfig[p].ServiceLevel \notin {"", CPoolServiceLevel}
            IN  (~pool.subnet \/ noCPool) =>
                    /\ pc[p] = "done"
                    /\ ret[p].kind = IF ~pool.subnet THEN "noSubnet" ELSE "noCapacityPools"
                    /\ Issued(p, "CreateVolume") = {}

\* a Create in a storage pool with capacity pools, none of the service level
\* asked for
C35_Witness ==
    \E p \in Procs :
        /\ Finished(p, {"Create"})
        /\ pools[frame[p].storagePool].subnet
        /\ Len(pools[frame[p].storagePool].cPools) > 0
        /\ volConfig[p].ServiceLevel = "Ultra"
        /\ Issued(p, "CapacityPoolsForStoragePool") # {}
        /\ Issued(p, "CreateVolume") = {}
        /\ ret[p].kind = "noCapacityPools"

\* C39: a Create that has returned an error without a CreateVolume call having
\* succeeded leaves size, service level, snapshot-directory setting and unix
\* permissions of the descriptor as they were passed in.
C39_FailedCreateKeepsDescriptor ==
    \A p \in Procs :
        (Finished(p, {"Create"}) /\ ret[p].kind # "nil" /\ frame[p].volume = NoID) =>
            /\ volConfig[p].Size = frame[p].entry.Size
            /\ volConfig[p].ServiceLevel = frame[p].entry.ServiceLevel
            /\ volConfig[p].SnapshotDir = frame[p].entry.SnapshotDir
            /\ volConfig[p].UnixPermissions = frame[p].entry.UnixPermissions

\* C32: Publish and CreateFollowup return success only for a volume they
\* found in Available state, and CreateClone calls CreateVolume only with a
\* source volume it found in Available state.
C32_OnlyAvailableVolumesUsed ==
    \A p \in Procs :
        /\ (Finished(p, {"Publish", "CreateFollowup"}) /\ ret[p].kind = "nil") =>
                frame[p].extant = StateAvailable
        /\ (frame[p].op = "CreateClone" /\ Issued(p, "CreateVolume") # {}) =>
                frame[p].sourceVolume.state = StateAvailable

\* C33: when the post-create wait ends with an error and the volume in a
\* state the switch has no case for (Moving, Reverting, or a state the driver
\* does not know), the wait is the last SDK call of Create/CreateClone: no
\* DeleteVolume is issued, and the call returns nil.
C33_UnexpectedStatePassesThrough ==
    \A p \in Procs :
        (/\ Finished(p, CreateOps)
         /\ frame[p].waitErr
         /\ frame[p].state \notin
                {StateAccepted, StateCreating, StateDeleting, StateError}) =>
            /\ ret[p].kind = "nil"
            /\ Issued(p, "DeleteVolume") = {}
            /\ sdkCalls[p][Len(sdkCalls[p])] =
                    CallWith("WaitForVolumeState", 0, "volumeCreateTimeout")

\* a Create whose volume was being moved when the wait gave up, and still is
C33_Witness ==
    \E p \in Procs :
        /\ Finished(p, {"Create"})
        /\ WaitFailedIn(p, {StateMoving})
        /\ ret[p].kind = "nil"
        /\ \E v \in VolumesByID(frame[p].volume) : v.state = StateMoving

\* the operations of the driver that the host calls on volumes and snapshots
LifecycleOps ==
    CreateOps \cup SnapshotOps \cup AccessOps \cup {"Import", "Resize", "Destroy"}

\* C34: the first SDK call of every lifecycle operation is
\* RefreshAzureResources; an operation whose refresh failed has returned the
\* error with that call as its only SDK call and with the descriptor as it
\* was passed in.
C34_RefreshFirst ==
    \A p \in Procs :
        frame[p].op \in LifecycleOps =>
            /\ sdkCalls[p] # <<>> => sdkCalls[p][1] = Call("RefreshAzureResources")
            /\ ret[p].kind = "refreshError" =>
                    /\ pc[p] = "done"
                    /\ Len(sdkCalls[p]) = 1
                    /\ volConfig[p] = frame[p].entry

\* a Publish whose refresh failed
C34_Witness ==
    \E p \in Procs :
        /\ Finished(p, {"Publish"})
        /\ ret[p].kind = "refreshError"
        /\ sdkCalls[p] = <<Call("RefreshAzureResources")>>
        /\ volConfig[p] = frame[p].entry

====
